---- MODULE Spec2Model ----
(***************************************************************************)
(* A model of the epub crate: the EPUB document (src/src/doc.rs) as it is  *)
(* opened from a zip archive (src/src/archive.rs) through the XML tree of  *)
(* src/src/xmlutils.rs, and the navigation and resource calls made on it.  *)
(*                                                                         *)
(* Strings are sequences of tokens.  A token stands for a run of           *)
(* characters the code never looks into; the characters the code does look *)
(* at ("/" in a path, a percent escape in an entry name, the digits of a   *)
(* playOrder) are tokens of their own.                                     *)
(***************************************************************************)
EXTENDS Integers, Sequences, FiniteSets, TLC

VARIABLES
    archive,            \* EpubArchive.zip: entry name -> entry content
    phase,              \* "new": from_reader not called; "open": it returned Ok;
                        \* "failed": it returned Err; "panicked": it panicked
    version,            \* EpubDoc.version
    spine,              \* EpubDoc.spine
    resources,          \* EpubDoc.resources (the manifest): id -> [path, mime]
    toc,                \* EpubDoc.toc
    toc_title,          \* EpubDoc.toc_title
    metadata,           \* EpubDoc.metadata
    root_base,          \* EpubDoc.root_base
    root_file,          \* EpubDoc.root_file
    extra_css,          \* EpubDoc.extra_css
    unique_identifier,  \* EpubDoc.unique_identifier
    cover_id,           \* EpubDoc.cover_id
    current,            \* EpubDoc.current
    ret,                \* the last call made on the document and what it returned
    walk                \* the go_next calls of a walk from the first page, in order

vars == <<archive, phase, version, spine, resources, toc, toc_title, metadata,
          root_base, root_file, extra_css, unique_identifier, cover_id, current,
          ret, walk>>

docFields == <<version, spine, resources, toc, toc_title, metadata, root_base,
               root_file, unique_identifier, cover_id>>

-----------------------------------------------------------------------------
(* Option<T> *)

None == <<>>
Some(v) == <<v>>
IsSome(o) == Len(o) = 1
IsNone(o) == Len(o) = 0
Unwrap(o) == o[1]

(* A one-token string *)
S(t) == <<t>>

\* What ret keeps of the last call: the method, its argument, what it
\* returned, and for a failure inside the archive the kind of error
Call(op, arg, val, cause) == [op |-> op, arg |-> arg, val |-> val, cause |-> cause]

-----------------------------------------------------------------------------
(* Bounds of the model *)

MaxSpine == 3       \* the longest spine of the navigation inputs
MaxCss == 1         \* the most add_extra_css calls followed
MaxWalk == 5        \* the most go_next calls recorded in a walk
MaxNav == 2         \* the most navPoint elements under one parent
MaxMeta == 3        \* the most children of <metadata>

-----------------------------------------------------------------------------
(* XML trees: xmlutils::XMLNode *)

DC == "http://purl.org/dc/elements/1.1/"
OPF == "http://www.idpf.org/2007/opf"
NoNs == ""

Attr(name, value) == [name |-> name, ns |-> NoNs, value |-> value]
NsAttr(ns, name, value) == [name |-> name, ns |-> ns, value |-> value]

Node(ns, name, attrs, text, children) ==
    [name |-> name, ns |-> ns, attrs |-> attrs, text |-> text, children |-> children]

\* XMLNode::get_attr: the value of the first attribute with this local name
get_attr(node, name) ==
    LET hits == {i \in 1..Len(node.attrs) : node.attrs[i].name = name}
    IN IF hits = {} THEN None
       ELSE Some(node.attrs[CHOOSE i \in hits : \A j \in hits : i <= j].value)

\* XMLNode::find: the first descendant, depth first, with this local name
RECURSIVE find(_, _)
find(node, tag) ==
    LET RECURSIVE scan(_)
        scan(i) ==
            IF i > Len(node.children) THEN None
            ELSE LET c == node.children[i]
                 IN IF c.name = tag THEN Some(c)
                    ELSE LET n == find(c, tag)
                         IN IF IsSome(n) THEN n ELSE scan(i + 1)
    IN scan(1)

\* children.get(0).and_then(|t| t.text.clone())
first_child_text(node) ==
    IF Len(node.children) = 0 THEN None ELSE node.children[1].text

-----------------------------------------------------------------------------
(* Paths: std::path as the code uses it, over "/"-separated token strings  *)

Sep == "/"

LastSep(p) ==
    LET at == {i \in 1..Len(p) : p[i] = Sep}
    IN IF at = {} THEN 0 ELSE CHOOSE i \in at : \A j \in at : j <= i

\* Path::parent: None for the empty path and for the root
path_parent(p) ==
    IF p = <<>> \/ p = <<Sep>> THEN None
    ELSE IF LastSep(p) = 0 THEN Some(<<>>)
    ELSE IF LastSep(p) = 1 THEN Some(<<Sep>>)
    ELSE Some(SubSeq(p, 1, LastSep(p) - 1))

\* PathBuf::join: an absolute argument replaces the base
path_join(base, p) ==
    IF p # <<>> /\ p[1] = Sep THEN p
    ELSE IF base = <<>> THEN p
    ELSE IF base[Len(base)] = Sep THEN base \o p
    ELSE base \o <<Sep>> \o p

\* cfg!(windows) of the build that is modelled
TargetWindows == FALSE

BackslashToSlash(p) == [i \in 1..Len(p) |-> IF p[i] = "\\" THEN Sep ELSE p[i]]

\* EpubDoc::convert_path_seps
convert_path_seps(base, href) ==
    LET path == path_join(base, href)
    IN IF TargetWindows THEN BackslashToSlash(path) ELSE path

-----------------------------------------------------------------------------
(* The archive: archive::EpubArchive                                       *)

\* An entry: the tree XMLReader::parse yields for its bytes (None: parse
\* returns Err; TooShort: the entry has fewer than 3 bytes), whether the
\* bytes are valid UTF-8, and the bytes themselves.
Entry(xml, utf8, bytes) == [xml |-> xml, utf8 |-> utf8, bytes |-> bytes]
TooShort == <<"too", "short">>

\* percent_encoding::percent_decode, token by token
DecodeToken(t) ==
    CASE t = "%20" -> " "
      [] t = "%25" -> "%"
      [] OTHER -> t

percent_decode(name) == [i \in 1..Len(name) |-> DecodeToken(name[i])]

\* decode_utf8 fails when an escape decodes to a byte that is no UTF-8
DecodesToUtf8(name) == \A i \in 1..Len(name) : name[i] # "%FF"

Ok(v) == [ok |-> TRUE, val |-> v, err |-> "none"]
Err(e) == [ok |-> FALSE, val |-> <<>>, err |-> e]

\* a call that does not return: the thread panics
Panic == [ok |-> FALSE, val |-> <<>>, err |-> "panic"]
IsPanic(r) == "err" \in DOMAIN r /\ r.err = "panic"

\* get_entry that looks the percent-decoded name up first
get_entry_decoded_first(arch, name, readFails) ==
    IF DecodesToUtf8(name) /\ percent_decode(name) \in DOMAIN arch
    THEN IF readFails THEN Err("io") ELSE Ok(arch[percent_decode(name)])
    ELSE IF name \in DOMAIN arch
         THEN IF readFails THEN Err("io") ELSE Ok(arch[name])
         ELSE Err("notfound")

\* EpubArchive::get_entry.  readFails: read_to_end (or the zip reader, with an
\* error other than FileNotFound) fails on the entry that is found.
get_entry(arch, name, readFails) ==
    IF name \in DOMAIN arch
    THEN IF readFails THEN Err("io") ELSE Ok(arch[name])
    ELSE IF ~DecodesToUtf8(name) THEN Err("utf8")
    ELSE IF percent_decode(name) \in DOMAIN arch
         THEN IF readFails THEN Err("io") ELSE Ok(arch[percent_decode(name)])
         ELSE Err("notfound")

\* EpubArchive::get_entry_as_str
get_entry_as_str(arch, name, readFails) ==
    LET content == get_entry(arch, name, readFails)
    IN IF ~content.ok THEN content
       ELSE IF content.val.utf8 THEN content ELSE Err("utf8")

ContainerPath == <<"META-INF", Sep, "container.xml">>

\* EpubArchive::get_container_file
get_container_file(arch, readFails) == get_entry(arch, ContainerPath, readFails)

\* XMLReader::parse of an entry's bytes
parse(content) ==
    IF Len(content.xml) = 2 THEN Panic
    ELSE IF IsSome(content.xml) THEN Ok(Unwrap(content.xml))
    ELSE Err("xml")

-----------------------------------------------------------------------------
(* Strings the code looks into                                             *)

Digits == <<"0", "1", "2", "3", "4", "5", "6", "7", "8", "9">>

IsDigit(t) == \E d \in 1..Len(Digits) : Digits[d] = t
DigitVal(t) == (CHOOSE d \in 1..Len(Digits) : Digits[d] = t) - 1

\* a parse that takes every text that is no number for 0
parse_usize_lenient(s) ==
    IF s # <<>> /\ \A i \in 1..Len(s) : IsDigit(s[i])
    THEN Some(DigitVal(s[Len(s)]))
    ELSE Some(0)

\* str::parse::<usize>().ok(): decimal digits after an optional "+"
parse_usize(s) ==
    LET body == IF s # <<>> /\ s[1] = "+" THEN Tail(s) ELSE s
        RECURSIVE value(_, _)
        value(i, acc) ==
            IF i > Len(body) THEN acc ELSE value(i + 1, acc * 10 + DigitVal(body[i]))
    IN IF body # <<>> /\ \A i \in 1..Len(body) : IsDigit(body[i])
       THEN Some(value(1, 0))
       ELSE None

\* a strip_prefix that lets a text without the prefix through
strip_prefix_lenient(s, t) == IF s # <<>> /\ s[1] = t THEN Some(Tail(s)) ELSE Some(s)

\* str::strip_prefix
strip_prefix(s, t) == IF s # <<>> /\ s[1] = t THEN Some(Tail(s)) ELSE None

\* to_ascii_lowercase of an element name
AsciiLower(name) ==
    CASE name \in {"META", "Meta"} -> "meta"
      [] name \in {"HEAD", "Head"} -> "head"
      [] OTHER -> name

eq_ignore_ascii_case(a, b) == AsciiLower(a) = AsciiLower(b)

-----------------------------------------------------------------------------
(* Opening: EpubDoc::from_reader and what it calls                         *)

EmptyMap == [k \in {} |-> k]

\* HashMap::insert
MapInsert(m, k, v) == [x \in DOMAIN m \cup {k} |-> IF x = k THEN v ELSE m[x]]

\* HashMap::remove, the map that is left
MapRemove(m, k) == [x \in DOMAIN m \ {k} |-> m[x]]

\* get_root_file
get_root_file(container) ==
    LET root == parse(container)
        element == find(root.val, "rootfile")
        attr == get_attr(Unwrap(element), "full-path")
    IN IF IsPanic(root) THEN Panic
       ELSE IF ~root.ok THEN Err("xml")
       ELSE IF IsNone(element) THEN Err("rootfile")
       ELSE IF IsNone(attr) THEN Err("full-path")
       ELSE Ok(Unwrap(attr))

\* the version match of fill_resources
epub_version(root) ==
    LET v == get_attr(root, "version")
    IN IF v = Some(S("2.0")) THEN [tag |-> "Version2_0", raw |-> <<>>]
       ELSE IF v = Some(S("3.0")) THEN [tag |-> "Version3_0", raw |-> <<>>]
       ELSE IF IsSome(v) THEN [tag |-> "Unknown", raw |-> Unwrap(v)]
       ELSE [tag |-> "Unknown", raw |-> S("Unknown")]

\* insert_resource that asks for id and href alone
insert_resource_no_mtype(res, base, item) ==
    LET id == get_attr(item, "id")
        href == get_attr(item, "href")
        mtype == get_attr(item, "media-type")
    IN IF IsNone(id) \/ IsNone(href) THEN res
       ELSE MapInsert(res, Unwrap(id),
                      [path |-> convert_path_seps(base, Unwrap(href)),
                       mime |-> IF IsSome(mtype) THEN Unwrap(mtype) ELSE <<>>])

\* EpubDoc::insert_resource: the manifest after the item
insert_resource(res, base, item) ==
    LET id == get_attr(item, "id")
        href == get_attr(item, "href")
        mtype == get_attr(item, "media-type")
    IN IF IsNone(id) \/ IsNone(href) \/ IsNone(mtype) THEN res
       ELSE MapInsert(res, Unwrap(id),
                      [path |-> convert_path_seps(base, Unwrap(href)),
                       mime |-> Unwrap(mtype)])

\* the cover-image test without its is_none guard: the last item wins
manifest_cover_last(cover, item) ==
    LET id == get_attr(item, "id")
        property == get_attr(item, "properties")
    IN IF IsSome(id) /\ property = Some(S("cover-image"))
       THEN id
       ELSE cover

\* the cover-image test of the manifest loop: cover_id after the item
manifest_cover(cover, item) ==
    LET id == get_attr(item, "id")
        property == get_attr(item, "properties")
    IN IF IsNone(cover) /\ IsSome(id) /\ property = Some(S("cover-image"))
       THEN id
       ELSE cover

\* the manifest loop of fill_resources
RECURSIVE manifest_pass(_, _, _, _)
manifest_pass(acc, base, children, i) ==
    IF i > Len(children) THEN acc
    ELSE manifest_pass([cover_id |-> manifest_cover(acc.cover_id, children[i]),
                        resources |-> insert_resource(acc.resources, base, children[i])],
                       base, children, i + 1)

\* insert_spine whose linear is false for the value "no" alone
insert_spine_only_no(sp, item) ==
    LET idref == get_attr(item, "idref")
        lin == get_attr(item, "linear")
    IN IF IsNone(idref) THEN sp
       ELSE Append(sp, [idref |-> Unwrap(idref),
                        id |-> get_attr(item, "id"),
                        linear |-> lin # Some(S("no")),
                        properties |-> get_attr(item, "properties")])

\* EpubDoc::insert_spine: the spine after the item
insert_spine(sp, item) ==
    LET idref == get_attr(item, "idref")
        lin == get_attr(item, "linear")
    IN IF IsNone(idref) THEN sp
       ELSE Append(sp, [idref |-> Unwrap(idref),
                        id |-> get_attr(item, "id"),
                        linear |-> (IF IsSome(lin) THEN Unwrap(lin) ELSE S("yes")) = S("yes"),
                        properties |-> get_attr(item, "properties")])

\* the spine loop of fill_resources
RECURSIVE spine_pass(_, _, _)
spine_pass(sp, children, i) ==
    IF i > Len(children) THEN sp
    ELSE spine_pass(insert_spine(sp, children[i]), children, i + 1)

-----------------------------------------------------------------------------
(* The table of contents                                                   *)

\* Vec::sort with impl Ord for NavPoint: a stable sort on play_order alone.
\* InsertNav puts a point after every point that does not compare greater.
RECURSIVE InsertNav(_, _)
InsertNav(sorted, x) ==
    IF sorted = <<>> THEN <<x>>
    ELSE IF sorted[Len(sorted)].play_order <= x.play_order THEN Append(sorted, x)
    ELSE Append(InsertNav(SubSeq(sorted, 1, Len(sorted) - 1), x), sorted[Len(sorted)])

RECURSIVE SortFrom(_, _, _)
SortFrom(sorted, s, i) ==
    IF i > Len(s) THEN sorted ELSE SortFrom(InsertNav(sorted, s[i]), s, i + 1)

\* get_navpoints and fill_toc without their sort calls
sort_skipped(s) == s

sort(s) == SortFrom(<<>>, s, 1)

\* the if-let of get_navpoints: playOrder, content and label are all Some
is_navpoint(item) ==
    LET order == get_attr(item, "playOrder")
        play_order == IF IsSome(order) THEN parse_usize(Unwrap(order)) ELSE None
        c == find(item, "content")
        src == IF IsSome(c) THEN get_attr(Unwrap(c), "src") ELSE None
        l == find(item, "navLabel")
        label == IF IsSome(l) THEN first_child_text(Unwrap(l)) ELSE None
    IN IsSome(play_order) /\ IsSome(src) /\ IsSome(label)

\* The navPoint elements the loop of get_navpoints looks at, in the order of
\* the calls: the children of parent and, where the if-let holds, what the
\* recursive call inside it looks at.
RECURSIVE examined(_)
examined(parent) ==
    LET RECURSIVE from(_)
        from(i) ==
            IF i > Len(parent.children) THEN <<>>
            ELSE LET item == parent.children[i]
                 IN (IF item.name # "navPoint" THEN <<>>
                     ELSE <<item>> \o (IF is_navpoint(item) THEN examined(item) ELSE <<>>))
                    \o from(i + 1)
    IN from(1)

\* EpubDoc::get_navpoints
RECURSIVE get_navpoints(_, _)
get_navpoints(base, parent) ==
    LET navpoint(item) ==
            LET order == get_attr(item, "playOrder")
                play_order == IF IsSome(order) THEN parse_usize(Unwrap(order)) ELSE None
                c == find(item, "content")
                src == IF IsSome(c) THEN get_attr(Unwrap(c), "src") ELSE None
                content == IF IsSome(src) THEN Some(path_join(base, Unwrap(src))) ELSE None
                l == find(item, "navLabel")
                label == IF IsSome(l) THEN first_child_text(Unwrap(l)) ELSE None
            IN IF item.name # "navPoint" THEN <<>>
               ELSE IF IsSome(play_order) /\ IsSome(content) /\ IsSome(label)
               THEN <<[label |-> Unwrap(label),
                       content |-> Unwrap(content),
                       children |-> get_navpoints(base, item),
                       play_order |-> Unwrap(play_order)]>>
               ELSE <<>>
        RECURSIVE collect(_)
        collect(i) ==
            IF i > Len(parent.children) THEN <<>>
            ELSE navpoint(parent.children[i]) \o collect(i + 1)
    IN sort(collect(1))

\* EpubDoc::fill_toc on the toc and toc_title of a document being opened; the
\* caller drops the Result, so what counts is the fields it leaves behind,
\* unless the parse panics.
fill_toc(arch, res, base, doc, id, readFails) ==
    LET container == get_entry(arch, res[id].path, readFails)
        root == parse(container.val)
        dt == find(root.val, "docTitle")
        title == IF IsSome(dt) THEN first_child_text(Unwrap(dt)) ELSE None
        mapnode == find(root.val, "navMap")
    IN IF id \notin DOMAIN res THEN doc
       ELSE IF ~container.ok THEN doc
       ELSE IF IsPanic(root) THEN Panic
       ELSE IF ~root.ok THEN doc
       ELSE IF IsNone(mapnode)
       THEN [doc EXCEPT !.toc_title = IF IsSome(title) THEN Unwrap(title) ELSE <<>>]
       ELSE [doc EXCEPT !.toc_title = IF IsSome(title) THEN Unwrap(title) ELSE <<>>,
                        !.toc = sort(doc.toc \o get_navpoints(base, Unwrap(mapnode)))]

-----------------------------------------------------------------------------
(* Metadata                                                                *)

Refinement(property, value, lang, scheme) ==
    [property |-> property, value |-> value, lang |-> lang, scheme |-> scheme]

Item(id, property, value, lang, refined) ==
    [id |-> id, property |-> property, value |-> value, lang |-> lang,
     refined |-> refined]

\* the EPUB2 attributes of a Dublin Core element, as refinements
RECURSIVE opf_attrs(_, _)
opf_attrs(attrs, i) ==
    IF i > Len(attrs) THEN <<>>
    ELSE (IF attrs[i].ns = OPF
          THEN <<Refinement(S(attrs[i].name), attrs[i].value, None, None)>>
          ELSE <<>>) \o opf_attrs(attrs, i + 1)

text_or_default(item) == IF IsSome(item.text) THEN Unwrap(item.text) ELSE <<>>

\* one turn of the loop of fill_metadata over the children of <metadata>:
\* acc holds self.metadata, the pending refinements and self.cover_id
metadata_child(acc, item, ver) ==
    LET property == get_attr(item, "property")
        refines == get_attr(item, "refines")
        tid == IF IsSome(refines) THEN strip_prefix(Unwrap(refines), "#") ELSE None
        name == get_attr(item, "name")
        content == get_attr(item, "content")
        refinement == Refinement(Unwrap(property), text_or_default(item),
                                 get_attr(item, "lang"), get_attr(item, "scheme"))
    IN IF item.ns = DC
       THEN [acc EXCEPT !.metadata =
                Append(@, Item(get_attr(item, "id"), S(item.name), text_or_default(item),
                               get_attr(item, "lang"),
                               IF ver.tag = "Version3_0" THEN <<>>
                               ELSE opf_attrs(item.attrs, 1)))]
       ELSE IF item.ns = OPF /\ eq_ignore_ascii_case(item.name, "meta")
       THEN IF IsSome(property)
            THEN IF IsSome(refines)
                 THEN IF IsSome(tid)
                      THEN [acc EXCEPT !.refinements =
                               IF Unwrap(tid) \in DOMAIN @
                               THEN [@ EXCEPT ![Unwrap(tid)] = Append(@, refinement)]
                               ELSE MapInsert(@, Unwrap(tid), <<refinement>>)]
                      ELSE acc
                 ELSE [acc EXCEPT !.metadata =
                          Append(@, Item(get_attr(item, "id"), Unwrap(property),
                                         text_or_default(item), get_attr(item, "lang"),
                                         <<>>))]
            ELSE IF IsSome(name) /\ IsSome(content)
            THEN [acc EXCEPT !.cover_id = IF Unwrap(name) = S("cover") THEN content ELSE @,
                             !.metadata = Append(@, Item(None, Unwrap(name),
                                                         Unwrap(content), None, <<>>))]
            ELSE acc
       ELSE acc

RECURSIVE metadata_children(_, _, _, _)
metadata_children(acc, children, ver, i) ==
    IF i > Len(children) THEN acc
    ELSE metadata_children(metadata_child(acc, children[i], ver), children, ver, i + 1)

\* associate with HashMap::get in place of remove: every item with the id
\* takes the refinements
RECURSIVE associate_all(_, _, _)
associate_all(items, refinements, i) ==
    IF i > Len(items) THEN items
    ELSE IF IsSome(items[i].id) /\ Unwrap(items[i].id) \in DOMAIN refinements
    THEN associate_all([items EXCEPT ![i].refined = @ \o refinements[Unwrap(items[i].id)]],
                       refinements, i + 1)
    ELSE associate_all(items, refinements, i + 1)

\* "associate refinements": each item, in order, takes the pending refinements
\* filed under its id out of the map
RECURSIVE associate(_, _, _)
associate(items, refinements, i) ==
    IF i > Len(items) THEN items
    ELSE IF IsSome(items[i].id) /\ Unwrap(items[i].id) \in DOMAIN refinements
    THEN associate([items EXCEPT ![i].refined = @ \o refinements[Unwrap(items[i].id)]],
                   MapRemove(refinements, Unwrap(items[i].id)), i + 1)
    ELSE associate(items, refinements, i + 1)

\* EpubDoc::fill_metadata: self.metadata and self.cover_id afterwards
fill_metadata(elem, ver, cover) ==
    LET acc == metadata_children([metadata |-> <<>>, refinements |-> EmptyMap,
                                  cover_id |-> cover], elem.children, ver, 1)
    IN [metadata |-> associate(acc.metadata, acc.refinements, 1),
        cover_id |-> acc.cover_id]

\* Iterator::find over self.metadata
FirstItem(items, P(_)) ==
    LET hits == {i \in 1..Len(items) : P(items[i])}
    IN IF hits = {} THEN None
       ELSE Some(items[CHOOSE i \in hits : \A j \in hits : i <= j])

\* the identifier lookup that ends fill_resources
find_identifier(items, uid) ==
    LET identifier ==
            IF IsSome(uid)
            THEN FirstItem(items, LAMBDA d : d.property = S("identifier")
                                             /\ d.id = Some(Unwrap(uid)))
            ELSE FirstItem(items, LAMBDA d : d.property = S("identifier"))
    IN IF IsSome(identifier) THEN Some(Unwrap(identifier).value) ELSE None

-----------------------------------------------------------------------------
(* EpubDoc::fill_resources and EpubDoc::from_reader                        *)

\* Where the archive can fail while a document is opened: the zip directory,
\* or the read of one of the three entries from_reader asks for.  The reads
\* come in this order and a failed read of the first two ends the call, so
\* one failing place at most decides a call.
FailPoints == {"none", "zip", "container", "package", "toc"}

NoToc == [toc |-> <<>>, toc_title |-> <<>>]

\* EpubDoc::fill_resources on the document from_reader has built
fill_resources(arch, rootFile, base, fail) ==
    LET container == get_entry(arch, rootFile, fail = "package")
        root == parse(container.val)
        ver == epub_version(root.val)
        unique_identifier_id == get_attr(root.val, "unique-identifier")
        manifest == find(root.val, "manifest")
        m == manifest_pass([cover_id |-> None, resources |-> EmptyMap], base,
                           Unwrap(manifest).children, 1)
        spineNode == find(root.val, "spine")
        tocAttr == get_attr(Unwrap(spineNode), "toc")
        t == IF IsSome(tocAttr)
             THEN fill_toc(arch, m.resources, base, NoToc, Unwrap(tocAttr), fail = "toc")
             ELSE NoToc
        metadata_elem == find(root.val, "metadata")
        md == fill_metadata(Unwrap(metadata_elem), ver, m.cover_id)
    IN IF ~container.ok THEN Err("ArchiveError")
       ELSE IF IsPanic(root) THEN Panic
       ELSE IF ~root.ok THEN Err("XmlError")
       ELSE IF IsNone(manifest) THEN Err("InvalidEpub")
       ELSE IF IsNone(spineNode) THEN Err("InvalidEpub")
       ELSE IF IsPanic(t) THEN Panic
       ELSE IF IsNone(metadata_elem) THEN Err("InvalidEpub")
       ELSE Ok([version |-> ver,
                spine |-> spine_pass(<<>>, Unwrap(spineNode).children, 1),
                resources |-> m.resources,
                toc |-> t.toc,
                toc_title |-> t.toc_title,
                metadata |-> md.metadata,
                root_base |-> base,
                root_file |-> rootFile,
                unique_identifier |-> find_identifier(md.metadata, unique_identifier_id),
                cover_id |-> md.cover_id])

\* the fields of a document that was not built
NoDoc ==
    [version |-> [tag |-> "Version2_0", raw |-> <<>>], spine |-> <<>>,
     resources |-> EmptyMap, toc |-> <<>>, toc_title |-> <<>>, metadata |-> <<>>,
     root_base |-> <<>>, root_file |-> <<>>, unique_identifier |-> None,
     cover_id |-> None]

\* EpubDoc::from_reader
from_reader(arch, fail) ==
    LET container == get_container_file(arch, fail = "container")
        rootFile == get_root_file(container.val)
        base_path == path_parent(rootFile.val)
        filled == fill_resources(arch, rootFile.val, Unwrap(base_path), fail)
    IN IF fail = "zip" THEN [outcome |-> "failed", doc |-> NoDoc]
       ELSE IF ~container.ok THEN [outcome |-> "failed", doc |-> NoDoc]
       ELSE IF IsPanic(rootFile) THEN [outcome |-> "panicked", doc |-> NoDoc]
       ELSE IF ~rootFile.ok THEN [outcome |-> "failed", doc |-> NoDoc]
       ELSE IF IsNone(base_path) THEN [outcome |-> "panicked", doc |-> NoDoc]
       ELSE IF IsPanic(filled) THEN [outcome |-> "panicked", doc |-> NoDoc]
       ELSE IF ~filled.ok THEN [outcome |-> "failed", doc |-> NoDoc]
       ELSE [outcome |-> "open", doc |-> filled.val]

-----------------------------------------------------------------------------
(* Navigation and queries, as functions of the fields they read            *)

\* go_next with the bound test off by one: it steps past the last page
go_next_overruns(cur, len) ==
    IF cur >= len THEN [val |-> FALSE, current |-> cur]
    ELSE [val |-> TRUE, current |-> cur + 1]

\* go_next that wraps around to the first page at the end
go_next_wraps(cur, len) ==
    IF cur + 1 >= len THEN [val |-> len > 0, current |-> 0]
    ELSE [val |-> TRUE, current |-> cur + 1]

\* EpubDoc::go_next
go_next(cur, len) ==
    IF cur + 1 >= len THEN [val |-> FALSE, current |-> cur]
    ELSE [val |-> TRUE, current |-> cur + 1]

\* EpubDoc::go_prev
go_prev(cur) ==
    IF cur < 1 THEN [val |-> FALSE, current |-> cur]
    ELSE [val |-> TRUE, current |-> cur - 1]

\* set_current_page with > for >=: it accepts the page after the last
set_current_page_accepts_len(cur, len, n) ==
    IF n > len THEN [val |-> FALSE, current |-> cur]
    ELSE [val |-> TRUE, current |-> n]

\* EpubDoc::set_current_page
set_current_page(cur, len, n) ==
    IF n >= len THEN [val |-> FALSE, current |-> cur]
    ELSE [val |-> TRUE, current |-> n]

\* EpubDoc::get_current_id; Vec::get counts from 0
get_current_id(sp, cur) == IF cur < Len(sp) THEN Some(sp[cur + 1].idref) ELSE None

\* resource_id_to_chapter with rposition for position: the last match
resource_id_to_chapter_last(sp, uri) ==
    LET hits == {i \in 1..Len(sp) : sp[i].idref = uri}
    IN IF hits = {} THEN None
       ELSE Some((CHOOSE i \in hits : \A j \in hits : j <= i) - 1)

\* EpubDoc::resource_id_to_chapter: Iterator::position, counted from 0
resource_id_to_chapter(sp, uri) ==
    LET hits == {i \in 1..Len(sp) : sp[i].idref = uri}
    IN IF hits = {} THEN None
       ELSE Some((CHOOSE i \in hits : \A j \in hits : i <= j) - 1)

\* EpubDoc::resource_uri_to_chapter.  order: the keys of the manifest in the
\* order this HashMap happens to iterate them.
resource_uri_to_chapter(res, order, sp, uri) ==
    LET hits == {i \in 1..Len(order) : res[order[i]].path = uri}
    IN IF hits = {} THEN None
       ELSE resource_id_to_chapter(sp, order[CHOOSE i \in hits : \A j \in hits : i <= j])

\* the orders a HashMap can iterate its keys in
IterationOrders(m) ==
    {o \in [1..Cardinality(DOMAIN m) -> DOMAIN m] :
        \A i, j \in DOMAIN o : i # j => o[i] # o[j]}

\* mdata with Iterator::rfind: the last item of the property
mdata_last(items, property) ==
    LET hits == {i \in 1..Len(items) : items[i].property = property}
    IN IF hits = {} THEN None
       ELSE Some(items[CHOOSE i \in hits : \A j \in hits : j <= i])

\* EpubDoc::mdata
mdata(items, property) == FirstItem(items, LAMBDA d : d.property = property)

\* get_release_identifier that makes do with the unique identifier alone
\* when the metadata has no dcterms:modified
get_release_identifier_lenient(uid, items) ==
    LET modified == FirstItem(items, LAMBDA d : d.property = S("dcterms:modified"))
    IN IF IsSome(uid) /\ IsSome(modified)
       THEN Some(Unwrap(uid) \o S("@") \o Unwrap(modified).value)
       ELSE uid

\* EpubDoc::get_release_identifier
get_release_identifier(uid, items) ==
    LET modified == mdata(items, S("dcterms:modified"))
    IN IF IsSome(uid) /\ IsSome(modified)
       THEN Some(Unwrap(uid) \o S("@") \o Unwrap(modified).value)
       ELSE None

\* Result::ok
ok(r) == IF r.ok THEN Some(r.val.bytes) ELSE None

\* EpubDoc::get_resource_by_path
get_resource_by_path(arch, path, readFails) == ok(get_entry(arch, path, readFails))

\* EpubDoc::get_resource
get_resource(arch, res, id, readFails) ==
    LET content == get_resource_by_path(arch, res[id].path, readFails)
    IN IF id \notin DOMAIN res THEN None
       ELSE IF IsNone(content) THEN None
       ELSE Some(<<Unwrap(content), res[id].mime>>)

\* EpubDoc::get_resource_str_by_path
get_resource_str_by_path(arch, path, readFails) ==
    ok(get_entry_as_str(arch, path, readFails))

\* EpubDoc::get_resource_str
get_resource_str(arch, res, id, readFails) ==
    LET content == get_resource_str_by_path(arch, res[id].path, readFails)
    IN IF id \notin DOMAIN res THEN None
       ELSE IF IsNone(content) THEN None
       ELSE Some(<<Unwrap(content), res[id].mime>>)

-----------------------------------------------------------------------------
(* The archives the model opens                                            *)

SeqsUpTo(set, n) == UNION {[1..k -> set] : k \in 0..n}

RootFile == <<"OEBPS", Sep, "content.opf">>
InBase(href) == <<"OEBPS", Sep>> \o href

HrefX == S("x.xhtml")               \* an entry that is valid UTF-8
HrefY == S("y.png")                 \* an entry that is not valid UTF-8
HrefZ == S("z.xhtml")               \* no entry of the archive
HrefE == <<"e", "%20", "f.xhtml">>  \* the entry is stored as "e f.xhtml"
HrefNcx == S("toc.ncx")

Xhtml == S("application/xhtml+xml")

ContainerDoc(attrs) ==
    Node(NoNs, "container", <<>>, None,
         <<Node(NoNs, "rootfiles", <<>>, None,
                <<Node(NoNs, "rootfile", attrs, None, <<>>)>>)>>)

ItemNode(id, href) ==
    Node(OPF, "item", <<Attr("id", S(id)), Attr("href", href), Attr("media-type", Xhtml)>>,
         None, <<>>)

ItemRef(idref) == Node(OPF, "itemref", <<Attr("idref", S(idref))>>, None, <<>>)

DcNode(name, attrs, text) == Node(DC, name, attrs, Some(S(text)), <<>>)
MetaNode(property, text) ==
    Node(OPF, "meta", <<Attr("property", S(property))>>, Some(S(text)), <<>>)

PackageDoc(attrs, metaKids, manifestKids, spineAttrs, spineKids) ==
    Node(OPF, "package", attrs, None,
         <<Node(OPF, "metadata", <<>>, None, metaKids),
           Node(OPF, "manifest", <<>>, None, manifestKids),
           Node(OPF, "spine", spineAttrs, None, spineKids)>>)

\* the entries every archive of the model holds beside its package document
Content ==
    (ContainerPath :> Entry(Some(ContainerDoc(<<Attr("full-path", RootFile)>>)), TRUE,
                            "container"))
    @@ (InBase(HrefX) :> Entry(None, TRUE, "x-bytes"))
    @@ (InBase(HrefY) :> Entry(None, FALSE, "y-bytes"))
    @@ (InBase(<<"e", " ", "f.xhtml">>) :> Entry(None, TRUE, "e-bytes"))

ArchiveOf(package) == (RootFile :> Entry(Some(package), TRUE, "package")) @@ Content

PubId == <<Attr("version", S("2.0")), Attr("unique-identifier", S("pub-id"))>>

PlainMeta ==
    <<DcNode("identifier", <<Attr("id", S("pub-id"))>>, "urn:1"),
      DcNode("title", <<>>, "T")>>

PlainManifest == <<ItemNode("a", HrefX), ItemNode("b", HrefY)>>

\* Manifests: plain; two ids with one path; a path that is no entry and a
\* percent-encoded one; an item without media-type before a complete one.
Manifests ==
    {PlainManifest,
     <<ItemNode("a", HrefX), ItemNode("b", HrefX)>>,
     <<ItemNode("a", HrefZ), ItemNode("b", HrefE)>>,
     <<Node(OPF, "item", <<Attr("id", S("a")), Attr("href", HrefX)>>, None, <<>>),
       ItemNode("b", HrefY)>>}

\* Spines: every sequence of itemrefs to a and b up to MaxSpine, and one
\* with a child that has no idref.
Spines ==
    SeqsUpTo({ItemRef("a"), ItemRef("b")}, MaxSpine)
    \cup {<<ItemRef("a"), Node(OPF, "itemref", <<>>, None, <<>>), ItemRef("b")>>}

NavArchives ==
    {ArchiveOf(PackageDoc(PubId, PlainMeta, m, <<>>, sp)) : m \in Manifests, sp \in Spines}

\* Children of <metadata>
MetaChoices ==
    {DcNode("identifier", <<Attr("id", S("pub-id"))>>, "urn:1"),
     DcNode("identifier", <<>>, "urn:2"),
     DcNode("identifier", <<Attr("id", S("other"))>>, "urn:3"),
     MetaNode("dcterms:modified", "2015"),
     MetaNode("dcterms:modified", "2016"),
     DcNode("title", <<>>, "T")}

MetaArchives ==
    {ArchiveOf(PackageDoc(attrs, kids, PlainManifest, <<>>, <<ItemRef("a")>>)) :
        attrs \in {PubId, <<Attr("version", S("2.0"))>>},
        kids \in SeqsUpTo(MetaChoices, MaxMeta)}

\* Archives from_reader cannot open
BrokenArchives ==
    {Content,
     ArchiveOf(Node(OPF, "package", PubId, None,
                    <<Node(OPF, "metadata", <<>>, None, PlainMeta),
                      Node(OPF, "spine", <<>>, None, <<ItemRef("a")>>)>>)),
     ArchiveOf(Node(OPF, "package", PubId, None,
                    <<Node(OPF, "metadata", <<>>, None, PlainMeta),
                      Node(OPF, "manifest", <<>>, None, PlainManifest)>>)),
     ArchiveOf(Node(OPF, "package", PubId, None,
                    <<Node(OPF, "manifest", <<>>, None, PlainManifest),
                      Node(OPF, "spine", <<>>, None, <<ItemRef("a")>>)>>)),
     (RootFile :> Entry(None, TRUE, "package")) @@ Content,
     (ContainerPath :> Entry(Some(ContainerDoc(<<>>)), TRUE, "container")) @@ Content,
     (ContainerPath :> Entry(Some(ContainerDoc(<<Attr("full-path", <<>>)>>)), TRUE,
                             "container")) @@ Content}

\* The NCX document: navPoint elements under navMap
NavPointNode(order, kids) ==
    Node(NoNs, "navPoint", <<Attr("playOrder", order)>>, None,
         <<Node(NoNs, "navLabel", <<>>, None,
                <<Node(NoNs, "text", <<>>, Some(S("label")), <<>>)>>),
           Node(NoNs, "content", <<Attr("src", HrefX)>>, None, <<>>)>> \o kids)

Ncx(kids) ==
    Node(NoNs, "ncx", <<>>, None,
         <<Node(NoNs, "docTitle", <<>>, None,
                <<Node(NoNs, "text", <<>>, Some(S("title")), <<>>)>>),
           Node(NoNs, "navMap", <<>>, None, kids)>>)

\* playOrder values: 10 sorts after 2 as a number and before it as text
PlayOrders == {S("1"), S("2"), <<"1", "0">>}

NavLeaves == {NavPointNode(o, <<>>) : o \in PlayOrders}

\* the navPoint children of a top-level navPoint: none, any two, one whose
\* playOrder is no number, and one with children of its own
NavChildLists ==
    {<<>>}
    \cup {<<a, b>> : a \in NavLeaves, b \in NavLeaves}
    \cup {<<NavPointNode(S("x"), <<>>), NavPointNode(S("1"), <<>>)>>,
          <<NavPointNode(S("2"), <<NavPointNode(<<"1", "0">>, <<>>),
                                   NavPointNode(S("1"), <<>>)>>)>>}

NavTops ==
    {NavPointNode(o, kids) : o \in PlayOrders, kids \in NavChildLists}
    \cup {NavPointNode(S("x"), <<NavPointNode(S("1"), <<>>)>>)}

TocPackage(tocId) ==
    PackageDoc(PubId, PlainMeta, <<ItemNode("a", HrefX), ItemNode("ncx", HrefNcx)>>,
               <<Attr("toc", S(tocId))>>, <<ItemRef("a")>>)

\* Archives with a toc: every list of top-level navPoints up to MaxNav, and
\* three whose toc cannot be filled (no such id, no XML, no navMap).
TocArchives ==
    {(InBase(HrefNcx) :> Entry(Some(Ncx(tops)), TRUE, "ncx")) @@ ArchiveOf(TocPackage("ncx")) :
        tops \in SeqsUpTo(NavTops, MaxNav)}
    \cup {(InBase(HrefNcx) :> Entry(Some(Ncx(<<>>)), TRUE, "ncx"))
              @@ ArchiveOf(TocPackage("none")),
          (InBase(HrefNcx) :> Entry(None, TRUE, "ncx")) @@ ArchiveOf(TocPackage("ncx")),
          (InBase(HrefNcx) :> Entry(Some(Node(NoNs, "ncx", <<>>, None, <<>>)), TRUE, "ncx"))
              @@ ArchiveOf(TocPackage("ncx"))}

\* Arguments of the calls
QueryIds == {S("a"), S("b"), S("c")}
QueryPaths == {InBase(HrefX), InBase(HrefY), InBase(HrefZ), InBase(HrefE)}
CssTexts == {S("body{color:red}")}
QueryProperties == {S("identifier"), S("dcterms:modified"), S("title"), S("creator")}

-----------------------------------------------------------------------------
(* The state machine                                                       *)

InitWith(archives) ==
    /\ archive \in archives
    /\ phase = "new"
    /\ version = NoDoc.version
    /\ spine = <<>>
    /\ resources = EmptyMap
    /\ toc = <<>>
    /\ toc_title = <<>>
    /\ metadata = <<>>
    /\ root_base = <<>>
    /\ root_file = <<>>
    /\ extra_css = <<>>
    /\ unique_identifier = None
    /\ cover_id = None
    /\ current = 0
    /\ ret = Call("none", <<>>, <<>>, "none")
    /\ walk = <<>>

Init == InitWith(NavArchives \cup BrokenArchives)

\* the document from_reader returns, as the fields of the state
Returns(r, fail) ==
    /\ phase' = r.outcome
    /\ version' = r.doc.version
    /\ spine' = r.doc.spine
    /\ resources' = r.doc.resources
    /\ toc' = r.doc.toc
    /\ toc_title' = r.doc.toc_title
    /\ metadata' = r.doc.metadata
    /\ root_base' = r.doc.root_base
    /\ root_file' = r.doc.root_file
    /\ unique_identifier' = r.doc.unique_identifier
    /\ cover_id' = r.doc.cover_id
    /\ ret' = Call("from_reader", <<>>, r.outcome, fail)

\* EpubDoc::from_reader(archive)
FromReader ==
    /\ phase = "new"
    /\ \E fail \in FailPoints : Returns(from_reader(archive, fail), fail)
    /\ current' = 0
    /\ extra_css' = <<>>
    /\ UNCHANGED <<archive, walk>>

\* a call that moves and drops the extra css on the way
Moves_clears_css(op, arg, r) ==
    /\ phase = "open"
    /\ current' = r.current
    /\ extra_css' = <<>>
    /\ ret' = Call(op, arg, r.val, "none")
    /\ UNCHANGED <<archive, phase, docFields>>

\* a call that changes current alone
Moves(op, arg, r) ==
    /\ phase = "open"
    /\ current' = r.current
    /\ ret' = Call(op, arg, r.val, "none")
    /\ UNCHANGED <<archive, phase, docFields, extra_css>>

\* a call on &self, or one on &mut self that only reads the archive
Query(op, arg, val, cause) ==
    /\ phase = "open"
    /\ ret' = Call(op, arg, val, cause)
    /\ UNCHANGED <<archive, phase, docFields, extra_css, current, walk>>

GoNext == Moves("go_next", <<>>, go_next(current, Len(spine))) /\ UNCHANGED walk

GoPrev == Moves("go_prev", <<>>, go_prev(current)) /\ UNCHANGED walk

SetCurrentPage ==
    \E n \in 0..(MaxSpine + 1) :
        Moves("set_current_page", n, set_current_page(current, Len(spine), n))
        /\ UNCHANGED walk

\* EpubDoc::add_extra_css, with one of these texts, while fewer than max were added
AddExtraCssOf(texts, max) ==
    /\ phase = "open"
    /\ Len(extra_css) < max
    /\ \E css \in texts :
        /\ extra_css' = Append(extra_css, css)
        /\ ret' = Call("add_extra_css", css, <<>>, "none")
    /\ UNCHANGED <<archive, phase, docFields, current, walk>>

AddExtraCss == AddExtraCssOf(CssTexts, MaxCss)

GetCurrentId == Query("get_current_id", <<>>, get_current_id(spine, current), "none")

ResourceIdToChapter ==
    \E id \in QueryIds :
        Query("resource_id_to_chapter", id, resource_id_to_chapter(spine, id), "none")

ResourceUriToChapter ==
    \E uri \in QueryPaths, order \in IterationOrders(resources) :
        Query("resource_uri_to_chapter", uri,
              resource_uri_to_chapter(resources, order, spine, uri), "none")

GetReleaseIdentifier ==
    Query("get_release_identifier", <<>>,
          get_release_identifier(unique_identifier, metadata), "none")

GetResourceByPath ==
    \E path \in QueryPaths, readFails \in BOOLEAN :
        Query("get_resource_by_path", path,
              get_resource_by_path(archive, path, readFails),
              get_entry(archive, path, readFails).err)

GetResource ==
    \E id \in QueryIds, readFails \in BOOLEAN :
        Query("get_resource", id, get_resource(archive, resources, id, readFails),
              IF id \in DOMAIN resources
              THEN get_entry(archive, resources[id].path, readFails).err
              ELSE "nokey")

GetResourceStrByPath ==
    \E path \in QueryPaths, readFails \in BOOLEAN :
        Query("get_resource_str_by_path", path,
              get_resource_str_by_path(archive, path, readFails),
              get_entry_as_str(archive, path, readFails).err)

GetResourceStr ==
    \E id \in QueryIds, readFails \in BOOLEAN :
        Query("get_resource_str", id, get_resource_str(archive, resources, id, readFails),
              IF id \in DOMAIN resources
              THEN get_entry_as_str(archive, resources[id].path, readFails).err
              ELSE "nokey")

Next ==
    \/ FromReader
    \/ GoNext
    \/ GoPrev
    \/ SetCurrentPage
    \/ AddExtraCss
    \/ GetCurrentId
    \/ ResourceIdToChapter
    \/ ResourceUriToChapter
    \/ GetReleaseIdentifier
    \/ GetResourceByPath
    \/ GetResource
    \/ GetResourceStrByPath
    \/ GetResourceStr

Spec == Init /\ [][Next]_vars

\* A walk: go_next is the only call made on the document once it is open,
\* and walk records what each call returned and the page it left.
WalkNext ==
    /\ Len(walk) < MaxWalk
    /\ LET r == go_next(current, Len(spine))
       IN /\ Moves("go_next", <<>>, r)
          /\ walk' = Append(walk, [val |-> r.val, page |-> r.current])

NextWalk == FromReader \/ WalkNext

SpecWalk == Init /\ [][NextWalk]_vars

\* The table of contents: the document is opened and, as a reader does for
\* each entry of its toc, the entry's content path is turned into a chapter.
InitToc == InitWith(TocArchives)

TocEntryToChapter ==
    \E i \in 1..Len(toc), order \in IterationOrders(resources) :
        Query("resource_uri_to_chapter", toc[i].content,
              resource_uri_to_chapter(resources, order, spine, toc[i].content), "none")

NextToc == FromReader \/ TocEntryToChapter

SpecToc == InitToc /\ [][NextToc]_vars

\* The metadata: the document is opened and its metadata is asked for.
InitMeta == InitWith(MetaArchives)

Mdata ==
    \E property \in QueryProperties :
        Query("mdata", property, mdata(metadata, property), "none")

NextMeta == FromReader \/ GetReleaseIdentifier \/ Mdata

SpecMeta == InitMeta /\ [][NextMeta]_vars

-----------------------------------------------------------------------------
(* Relinking: build_epub_uri                                               *)

MaxComponents == 3  \* the most components of an attribute value

\* Path::components, without the root: the runs of tokens between
\* separators; empty runs and "." are no components.
RECURSIVE ComponentsFrom(_, _, _)
ComponentsFrom(p, i, run) ==
    LET closed == IF run = <<>> \/ run = <<".">> THEN <<>> ELSE <<run>>
    IN IF i > Len(p) THEN closed
       ELSE IF p[i] = Sep THEN closed \o ComponentsFrom(p, i + 1, <<>>)
       ELSE ComponentsFrom(p, i + 1, Append(run, p[i]))

components(p) == ComponentsFrom(p, 1, <<>>)

\* PathBuf::pop: truncate to the parent, if there is one
path_pop(p) == IF IsSome(path_parent(p)) THEN Unwrap(path_parent(p)) ELSE p

\* str::starts_with("http"): a string that starts with these four
\* characters has them as its first token
starts_with_http(v) == v # <<>> /\ v[1] = "http"

\* the loop of build_epub_uri over the components of the value
RECURSIVE walk_components(_, _, _)
walk_components(cpath, comps, i) ==
    IF i > Len(comps) THEN cpath
    ELSE IF comps[i] = <<"..">> THEN walk_components(path_pop(cpath), comps, i + 1)
    ELSE walk_components(path_join(cpath, comps[i]), comps, i + 1)

\* build_epub_uri that forgets to leave the current file for its directory
build_epub_uri_from_file(path, append) ==
    IF starts_with_http(append) THEN append
    ELSE LET cpath == walk_components(path, components(append), 1)
         IN <<"epub://">> \o (IF TargetWindows THEN BackslashToSlash(cpath) ELSE cpath)

\* build_epub_uri
build_epub_uri(path, append) ==
    IF starts_with_http(append) THEN append
    ELSE LET cpath == walk_components(path_pop(path), components(append), 1)
         IN <<"epub://">> \o (IF TargetWindows THEN BackslashToSlash(cpath) ELSE cpath)

\* Paths of the current content document
CurrentPaths ==
    {<<"OEBPS", Sep, "Text", Sep, "x.xhtml">>, <<"OEBPS", Sep, "x.xhtml">>, <<"x.xhtml">>}

\* Attribute values: relative paths of up to MaxComponents components, with
\* and without a leading or a doubled separator, and three that start with
\* "http" (two links and a file name).
RECURSIVE JoinWith(_, _)
JoinWith(comps, sep) ==
    IF comps = <<>> THEN <<>>
    ELSE IF Len(comps) = 1 THEN comps[1]
    ELSE comps[1] \o sep \o JoinWith(Tail(comps), sep)

UriComponents == {<<"..">>, <<".">>, <<"Images">>, <<"portada", ".png">>}

UriValues ==
    {JoinWith(c, <<Sep>>) : c \in SeqsUpTo(UriComponents, MaxComponents)}
    \cup {<<Sep>> \o JoinWith(c, <<Sep, Sep>>) : c \in SeqsUpTo(UriComponents, 2)}
    \cup {<<"http", "://creativecommons.org", Sep, "licenses">>,
          <<"http", "s://example.org">>,
          <<"http", "d-notes.xhtml">>}

InitUri == InitWith({Content})

\* a call of build_epub_uri, as the closure of get_current_with_epub_uris makes it
BuildEpubUri ==
    /\ ret.op = "none"
    /\ \E path \in CurrentPaths, v \in UriValues :
        ret' = Call("build_epub_uri", [path |-> path, value |-> v],
                    build_epub_uri(path, v), "none")
    /\ UNCHANGED <<archive, phase, docFields, extra_css, current, walk>>

NextUri == BuildEpubUri

SpecUri == InitUri /\ [][NextUri]_vars

-----------------------------------------------------------------------------
(* Relinking: xmlutils::replace_attrs and get_current_with_epub_uris       *)

MaxElems == 2       \* the most elements in the body of a content document
MaxCssRelink == 2   \* the most add_extra_css calls before relinking

\* Events of xml::reader::EventReader, and of the writer.  "other" stands
\* for the events replace_attrs hands over as they are (the declaration,
\* comments, white space), "error" for the Err the reader ends with.
Event(kind, name, attrs, text) ==
    [kind |-> kind, name |-> name, attrs |-> attrs, text |-> text]
StartEv(name, attrs) == Event("start", name, attrs, <<>>)
EndEv(name) == Event("end", name, <<>>, <<>>)
CharsEv(text) == Event("chars", "", <<>>, text)
CDataEv(text) == Event("cdata", "", <<>>, text)
OtherEv == Event("other", "", <<>>, <<>>)
ErrorEv == Event("error", "", <<>>, <<>>)

RECURSIVE concat(_)
concat(strings) == IF strings = <<>> THEN <<>> ELSE strings[1] \o concat(Tail(strings))

\* the closure get_current_with_epub_uris gives to replace_attrs, which
\* matches on the element alone
relink_any_attr(path, element, attr, value) ==
    IF element \in {"link", "image", "a", "img"} THEN build_epub_uri(path, value) ELSE value

\* the closure get_current_with_epub_uris gives to replace_attrs; it
\* captures the path of the current document
relink(path, element, attr, value) ==
    IF <<element, attr>> \in {<<"link", "href">>, <<"image", "href">>,
                              <<"a", "href">>, <<"img", "src">>}
    THEN build_epub_uri(path, value)
    ELSE value

\* the <style> element replace_attrs writes before </head>
style_block(css) ==
    <<StartEv("style", <<>>), CharsEv(<<"/*">>),
      CDataEv(<<"*/">> \o concat(css) \o <<"/*">>), CharsEv(<<"*/">>),
      EndEv("style")>>

\* the test for </head> without to_lowercase
is_head_exactly(name) == name = "head"

\* n.local_name.to_lowercase() == "head"
is_head(name) == AsciiLower(name) = "head"

\* replace_attrs writing the style block after the end tag of head
rewritten_style_after(ev, path, css) ==
    CASE ev.kind = "start" ->
            <<[ev EXCEPT !.attrs =
                [i \in 1..Len(ev.attrs) |->
                    [ev.attrs[i] EXCEPT
                        !.value = relink(path, ev.name, ev.attrs[i].name, ev.attrs[i].value)]]]>>
      [] ev.kind = "end" ->
            <<ev>>
            \o (IF is_head(ev.name) /\ css # <<>> THEN style_block(css) ELSE <<>>)
      [] OTHER -> <<ev>>

\* what replace_attrs writes for one event of the reader
rewritten(ev, path, css) ==
    CASE ev.kind = "start" ->
            <<[ev EXCEPT !.attrs =
                [i \in 1..Len(ev.attrs) |->
                    [ev.attrs[i] EXCEPT
                        !.value = relink(path, ev.name, ev.attrs[i].name, ev.attrs[i].value)]]]>>
      [] ev.kind = "end" ->
            (IF is_head(ev.name) /\ css # <<>> THEN style_block(css) ELSE <<>>)
            \o <<ev>>
      [] OTHER -> <<ev>>

\* xmlutils::replace_attrs with the closure of get_current_with_epub_uris
RECURSIVE replace_attrs_from(_, _, _, _, _)
replace_attrs_from(xmldoc, path, css, i, b) ==
    IF i > Len(xmldoc) THEN Ok(b)
    ELSE IF xmldoc[i].kind = "error" THEN Err("XMLError")
    ELSE replace_attrs_from(xmldoc, path, css, i + 1,
                            b \o rewritten(xmldoc[i], path, css))

replace_attrs(xmldoc, path, css) == replace_attrs_from(xmldoc, path, css, 1, <<>>)

\* EpubDoc::get_current_path
get_current_path(res, sp, cur) ==
    LET current_id == get_current_id(sp, cur)
    IN IF IsNone(current_id) THEN None
       ELSE IF Unwrap(current_id) \notin DOMAIN res THEN None
       ELSE Some(res[Unwrap(current_id)].path)

\* EpubDoc::get_current
get_current(arch, res, sp, cur, readFails) ==
    LET current_id == get_current_id(sp, cur)
    IN IF IsNone(current_id) THEN None
       ELSE get_resource(arch, res, Unwrap(current_id), readFails)

\* EpubDoc::get_current_with_epub_uris
get_current_with_epub_uris(arch, res, sp, cur, css, readFails) ==
    LET path == get_current_path(res, sp, cur)
        content == get_current(arch, res, sp, cur, readFails)
    IN IF IsNone(path) THEN Err("InvalidEpub")
       ELSE IF IsNone(content) THEN Err("InvalidEpub")
       ELSE replace_attrs(Unwrap(content)[1], Unwrap(path), css)

\* Content documents as the reader yields them: <html>, a head element or
\* none, and a body of up to MaxElems elements.
XLINK == "http://www.w3.org/1999/xlink"

BodyElems ==
    {<<StartEv("link", <<Attr("rel", S("stylesheet")),
                         Attr("href", <<"..", Sep, "Styles", Sep, "s.css">>)>>),
       EndEv("link")>>,
     <<StartEv("image", <<NsAttr(XLINK, "href", <<"portada", ".png">>),
                          Attr("width", S("10"))>>),
       EndEv("image")>>,
     <<StartEv("a", <<Attr("href", <<"http", "://example.org">>)>>),
       CharsEv(S("text")), EndEv("a")>>,
     <<StartEv("img", <<Attr("src", <<"..", Sep, "Images", Sep, "portada", ".png">>),
                        Attr("alt", <<"..", Sep, "x">>)>>),
       EndEv("img")>>,
     <<StartEv("script", <<Attr("src", S("s.js"))>>), EndEv("script")>>,
     <<StartEv("A", <<Attr("href", S("c.xhtml"))>>), EndEv("A")>>}

Heads ==
    {<<StartEv("head", <<>>), StartEv("title", <<>>), CharsEv(S("T")), EndEv("title"),
       EndEv("head")>>,
     <<StartEv("HEAD", <<>>), EndEv("HEAD")>>,
     <<>>}

ContentDoc(head, elems) ==
    <<OtherEv, StartEv("html", <<>>)>> \o head \o <<StartEv("body", <<>>)>>
    \o concat(elems) \o <<EndEv("body"), EndEv("html"), OtherEv>>

ContentDocs ==
    {ContentDoc(h, e) : h \in Heads, e \in SeqsUpTo(BodyElems, MaxElems)}
    \cup {<<OtherEv, StartEv("html", <<>>), StartEv("head", <<>>), EndEv("head"), ErrorEv>>}

RelinkArchive(doc, manifest, sp) ==
    (InBase(HrefX) :> Entry(None, TRUE, doc))
    @@ ArchiveOf(PackageDoc(PubId, PlainMeta, manifest, <<>>, sp))

\* Every content document as the only chapter, and three documents with no
\* current content: an empty spine, an idref that is no manifest id, a
\* manifest path that is no entry.
RelinkArchives ==
    {RelinkArchive(d, PlainManifest, <<ItemRef("a")>>) : d \in ContentDocs}
    \cup {RelinkArchive(ContentDoc(<<>>, <<>>), PlainManifest, <<>>),
          RelinkArchive(ContentDoc(<<>>, <<>>), PlainManifest, <<ItemRef("zz")>>),
          RelinkArchive(ContentDoc(<<>>, <<>>),
                        <<ItemNode("a", HrefZ), ItemNode("b", HrefY)>>, <<ItemRef("a")>>)}

CssRelinkTexts == {S("body{color:red}"), S("p{margin:0}")}

InitRelink == InitWith(RelinkArchives)

AddExtraCssRelink == AddExtraCssOf(CssRelinkTexts, MaxCssRelink)

GetCurrentWithEpubUris ==
    \E readFails \in BOOLEAN :
        Query("get_current_with_epub_uris", <<>>,
              get_current_with_epub_uris(archive, resources, spine, current, extra_css,
                                         readFails),
              IF readFails THEN "io" ELSE "none")

NextRelink == FromReader \/ AddExtraCssRelink \/ GetCurrentWithEpubUris

SpecRelink == InitRelink /\ [][NextRelink]_vars

-----------------------------------------------------------------------------
(* The archive on its own: EpubArchive::get_entry                          *)

\* Entry names: plain, with a space, with the escape of a space, with a
\* percent sign, with the escape of a percent sign
StoredNames ==
    {<<"x">>, <<"e", " ", "f">>, <<"e", "%20", "f">>, <<"a", "%", "b">>, <<"a", "%25", "b">>}

\* every archive that holds some of these names, each entry with bytes of its own
EntryArchives ==
    {[n \in names |-> Entry(None, TRUE, n)] : names \in SUBSET StoredNames}

\* the names asked for: the stored ones, one that is nowhere, and one
\* whose escape is no UTF-8
EntryNames == StoredNames \cup {<<"z">>, <<"e", "%FF", "f">>}

InitEntry == InitWith(EntryArchives)

GetEntry ==
    /\ \E name \in EntryNames, readFails \in BOOLEAN :
        ret' = Call("get_entry", name, get_entry(archive, name, readFails), "none")
    /\ UNCHANGED <<archive, phase, docFields, extra_css, current, walk>>

NextEntry == GetEntry

SpecEntry == InitEntry /\ [][NextEntry]_vars

-----------------------------------------------------------------------------
(* The tree builder: XMLReader::parse and parse_xml over reader events.    *)
(* The xml field of an archive entry above is the tree this yields for the *)
(* entry's bytes; the entries of those archives are 3 bytes or longer.     *)

MaxEvents == 4      \* the most events the reader yields for a buffer

\* A buffer: its length in bytes, whether it starts with a byte order mark,
\* and the events the reader yields for what follows the mark
Buffer(len, bom, events) == [len |-> len, bom |-> bom, events |-> events]


\* the loop of parse_xml: parents is the stack of open elements, each with
\* the children closed so far; root_open tells that the first element is
\* still on it, root_closed holds it once it is closed.  The iterator ends
\* with the first error it yields.
RECURSIVE parse_events(_, _, _, _, _)
parse_events(events, i, parents, root_open, root_closed) ==
    LET n == Len(parents)
        ev == events[i]
        is_root == n = 0 /\ ~root_open /\ IsNone(root_closed)
    IN IF i > Len(events) \/ ev.kind = "error"
       THEN [root_open |-> root_open, root_closed |-> root_closed]
       ELSE CASE ev.kind = "start" ->
                    parse_events(events, i + 1,
                                 Append(parents, Node(NoNs, ev.name, ev.attrs, None, <<>>)),
                                 root_open \/ is_root, root_closed)
              [] ev.kind = "end" /\ n = 1 ->
                    parse_events(events, i + 1, <<>>, FALSE,
                                 IF root_open THEN Some(parents[1]) ELSE root_closed)
              [] ev.kind = "end" /\ n > 1 ->
                    parse_events(events, i + 1,
                                 [SubSeq(parents, 1, n - 1) EXCEPT
                                    ![n - 1].children = Append(@, parents[n])],
                                 root_open, root_closed)
              [] ev.kind = "chars" /\ n > 0 ->
                    parse_events(events, i + 1,
                                 [parents EXCEPT ![n].text = Some(ev.text)],
                                 root_open, root_closed)
              [] OTHER -> parse_events(events, i + 1, parents, root_open, root_closed)

\* XMLReader::parse_xml; Rc::try_unwrap fails while parents still holds the root
parse_xml(events) ==
    LET end == parse_events(events, 1, <<>>, FALSE, None)
    IN IF end.root_open THEN Err("Unknown error")
       ELSE IF IsSome(end.root_closed) THEN Ok(Unwrap(end.root_closed))
       ELSE Err("Not xml elements")

\* XMLReader::parse; content[0..3] is out of range for a buffer under 3 bytes
XMLReader_parse(content) ==
    IF content.len < 3 THEN Panic ELSE parse_xml(content.events)

\* Events of the buffers parsed
XmlEvents ==
    {StartEv("a", <<>>), StartEv("b", <<Attr("id", S("1"))>>), EndEv("a"),
     CharsEv(S("t")), OtherEv, ErrorEv}

\* the reader yields nothing after an error
EndsAtError(events) == \A i \in 1..(Len(events) - 1) : events[i].kind # "error"

\* Buffers of 4 bytes or more with every event sequence up to MaxEvents,
\* and the buffers under 4 bytes: empty, one and two bytes, "<a>", a byte
\* order mark alone.
Buffers ==
    {Buffer(4, FALSE, e) : e \in {e \in SeqsUpTo(XmlEvents, MaxEvents) : EndsAtError(e)}}
    \cup {Buffer(n, FALSE, <<ErrorEv>>) : n \in 0..3}
    \cup {Buffer(3, FALSE, <<OtherEv, StartEv("a", <<>>), ErrorEv>>),
          Buffer(3, TRUE, <<ErrorEv>>)}

InitXml == InitWith({Content})

\* one call of XMLReader::parse on a buffer
Parse ==
    /\ ret.op = "none"
    /\ \E content \in Buffers :
        ret' = Call("parse", content, XMLReader_parse(content), "none")
    /\ UNCHANGED <<archive, phase, docFields, extra_css, current, walk>>

NextXml == Parse

SpecXml == InitXml /\ [][NextXml]_vars

-----------------------------------------------------------------------------
(* The tree builder, node by node.  parse_xml keeps its nodes behind       *)
(* Rc<RefCell<..>> handles: here a handle is the index of the node in heap, *)
(* the nodes in the order they were created.                               *)

\* the XMLNode a start tag creates, before it is linked
arnode(name, attrs) ==
    [name |-> name, attrs |-> attrs, parent |-> None, text |-> None,
     cdata |-> None, childs |-> <<>>]

\* the locals of parse_xml before the loop
NoNodes == [heap |-> <<>>, parents |-> <<>>, root |-> None]

\* StartElement with its children attached in front of the older ones
start_element_first(st, e) ==
    LET id == Len(st.heap) + 1
        n == Len(st.parents)
    IN [heap |->
            IF n = 0 THEN Append(st.heap, arnode(e.name, e.attrs))
            ELSE Append([st.heap EXCEPT ![st.parents[n]].childs = <<id>> \o @],
                        [arnode(e.name, e.attrs) EXCEPT !.parent = Some(st.parents[n])]),
        parents |-> Append(st.parents, id),
        root |-> IF IsNone(st.root) THEN Some(id) ELSE st.root]

\* Ok(ReaderEvent::StartElement {..})
start_element(st, e) ==
    LET id == Len(st.heap) + 1
        n == Len(st.parents)
    IN [heap |->
            IF n = 0 THEN Append(st.heap, arnode(e.name, e.attrs))
            ELSE Append([st.heap EXCEPT ![st.parents[n]].childs = Append(@, id)],
                        [arnode(e.name, e.attrs) EXCEPT !.parent = Some(st.parents[n])]),
        parents |-> Append(st.parents, id),
        root |-> IF IsNone(st.root) THEN Some(id) ELSE st.root]

\* Ok(ReaderEvent::EndElement {..})
end_element(st) ==
    IF st.parents # <<>>
    THEN [st EXCEPT !.parents = SubSeq(@, 1, Len(@) - 1)]
    ELSE st

\* Characters that add to the text the node has
characters_joined(st, text) ==
    IF st.parents # <<>>
    THEN [st EXCEPT !.heap[st.parents[Len(st.parents)]].text =
                        IF IsSome(@) THEN Some(Unwrap(@) \o text) ELSE Some(text)]
    ELSE st

\* Ok(ReaderEvent::Characters(text))
characters(st, text) ==
    IF st.parents # <<>>
    THEN [st EXCEPT !.heap[st.parents[Len(st.parents)]].text = Some(text)]
    ELSE st

\* Ok(ReaderEvent::CData(text))
cdata(st, text) ==
    IF st.parents # <<>>
    THEN [st EXCEPT !.heap[st.parents[Len(st.parents)]].cdata = Some(text)]
    ELSE st

\* the match of the loop body
match_event(st, e) ==
    CASE e.kind = "start" -> start_element(st, e)
      [] e.kind = "end" -> end_element(st)
      [] e.kind = "chars" -> characters(st, e.text)
      [] e.kind = "cdata" -> cdata(st, e.text)
      [] OTHER -> st

\* for e in self.reader: the iterator ends with the first error it yields
RECURSIVE reader_loop(_, _, _)
reader_loop(events, i, st) ==
    IF i > Len(events) \/ events[i].kind = "error" THEN st
    ELSE reader_loop(events, i + 1, match_event(st, events[i]))

\* the tree below a handle, as the owner of the root sees it
RECURSIVE tree_of(_, _)
tree_of(heap, id) ==
    Node(NoNs, heap[id].name, heap[id].attrs, heap[id].text,
         [c \in 1..Len(heap[id].childs) |-> tree_of(heap, heap[id].childs[c])])

\* Events of the buffers built node by node: two texts, in Characters and
\* in CData events
TreeEvents ==
    {StartEv("a", <<>>), StartEv("b", <<Attr("id", S("1"))>>), EndEv("a"),
     CharsEv(S("t")), CharsEv(S("u")), CDataEv(S("t")), CDataEv(S("u")),
     OtherEv, ErrorEv}

EventSeqs == {e \in SeqsUpTo(TreeEvents, MaxEvents) : EndsAtError(e)}

InitTree == InitWith({Content})

\* one run of the loop of parse_xml over the events of a reader
ParseXml ==
    /\ ret.op = "none"
    /\ \E events \in EventSeqs :
        ret' = Call("parse_xml", events, reader_loop(events, 1, NoNodes), "none")
    /\ UNCHANGED <<archive, phase, docFields, extra_css, current, walk>>

NextTree == ParseXml

SpecTree == InitTree /\ [][NextTree]_vars

-----------------------------------------------------------------------------
(* The package document: manifest items and metadata children of all kinds *)

MaxItems == 2       \* the most children of <manifest>
MaxRefine == 3      \* the most children of <metadata>

CoverImage == Attr("properties", S("cover-image"))

\* Children of <manifest>: a plain item; one whose three attributes are
\* present and empty; cover images with an id, without an id, and with an
\* id but no href or media-type; an item whose href holds a backslash.
ItemChoices ==
    {ItemNode("a", HrefX),
     Node(OPF, "item", <<Attr("id", <<>>), Attr("href", <<>>), Attr("media-type", <<>>)>>,
          None, <<>>),
     Node(OPF, "item", <<Attr("id", S("c")), Attr("href", HrefY), Attr("media-type", Xhtml),
                         CoverImage>>, None, <<>>),
     Node(OPF, "item", <<Attr("href", HrefX), Attr("media-type", Xhtml), CoverImage>>,
          None, <<>>),
     Node(OPF, "item", <<Attr("id", S("d")), CoverImage>>, None, <<>>),
     Node(OPF, "item", <<Attr("id", S("w")), Attr("href", <<"Text", "\\", "w.xhtml">>),
                         Attr("media-type", Xhtml)>>, None, <<>>)}

\* <meta name=... content=...>
LegacyMeta(name, content) ==
    Node(OPF, "meta", <<Attr("name", S(name)), Attr("content", S(content))>>, None, <<>>)

\* <meta property=... refines=...>text</meta>
RefiningMeta(property, refines, text) ==
    Node(OPF, "meta", <<Attr("property", S(property)), Attr("refines", refines)>>,
         Some(S(text)), <<>>)

\* Children of <metadata> that bear on the cover: none, one legacy cover,
\* two of them, a legacy meta of another name, and a meta named cover that
\* has a property attribute as well.
CoverMetas ==
    {<<>>,
     <<LegacyMeta("cover", "c1")>>,
     <<LegacyMeta("cover", "c1"), LegacyMeta("cover", "c2")>>,
     <<LegacyMeta("generator", "g")>>,
     <<Node(OPF, "meta", <<Attr("property", S("p")), Attr("name", S("cover")),
                           Attr("content", S("c3"))>>, Some(S("v")), <<>>)>>}

V3 == <<Attr("version", S("3.0"))>>
V2 == <<Attr("version", S("2.0"))>>

ManifestArchives ==
    {ArchiveOf(PackageDoc(V3, kids, m, <<>>, <<ItemRef("a")>>)) :
        kids \in CoverMetas, m \in SeqsUpTo(ItemChoices, MaxItems)}

InitManifest == InitWith(ManifestArchives)

NextManifest == FromReader

\* The manifest: a document is opened.
SpecManifest == InitManifest /\ [][NextManifest]_vars

\* Children of <metadata>: Dublin Core elements with the id t, without an id
\* and with an OPF attribute; a primary meta with the id t; metas refining
\* #t, refining #u, which no element has as id, and refining "t" without
\* the hash; a legacy meta; a META element in upper case.
RefineChoices ==
    {DcNode("title", <<Attr("id", S("t"))>>, "T"),
     DcNode("creator", <<NsAttr(OPF, "role", S("aut"))>>, "C"),
     Node(OPF, "meta", <<Attr("property", S("p")), Attr("id", S("t"))>>, Some(S("P")),
          <<>>),
     RefiningMeta("file-as", <<"#", "t">>, "R1"),
     Node(OPF, "meta", <<Attr("property", S("role")), Attr("refines", <<"#", "t">>),
                         Attr("scheme", S("marc")), Attr("lang", S("en"))>>,
          Some(S("R2")), <<>>),
     RefiningMeta("file-as", <<"#", "u">>, "R3"),
     RefiningMeta("file-as", <<"t">>, "R4"),
     LegacyMeta("title", "L"),
     Node(OPF, "META", <<Attr("property", S("p"))>>, None, <<>>)}

RefineArchives ==
    {ArchiveOf(PackageDoc(attrs, kids, PlainManifest, <<>>, <<ItemRef("a")>>)) :
        attrs \in {V2, V3}, kids \in SeqsUpTo(RefineChoices, MaxRefine)}

RefineProperties == {S("title"), S("creator"), S("p"), S("file-as")}

InitRefine == InitWith(RefineArchives)

MdataRefined ==
    \E property \in RefineProperties :
        Query("mdata", property, mdata(metadata, property), "none")

NextRefine == FromReader \/ MdataRefined

\* The metadata of all kinds: a document is opened and asked for metadata.
SpecRefine == InitRefine /\ [][NextRefine]_vars

-----------------------------------------------------------------------------
(* Every call on an open document                                          *)

get_cover_id(cover) == cover

\* EpubDoc::get_cover
get_cover(arch, res, cover, readFails) ==
    LET cid == get_cover_id(cover)
    IN IF IsNone(cid) THEN None ELSE get_resource(arch, res, Unwrap(cid), readFails)

\* EpubDoc::get_current_str
get_current_str(arch, res, sp, cur, readFails) ==
    LET current_id == get_current_id(sp, cur)
    IN IF IsNone(current_id) THEN None
       ELSE get_resource_str(arch, res, Unwrap(current_id), readFails)

\* a manifest with a cover image and an item that is no entry of the archive
FrameManifest ==
    <<ItemNode("a", HrefX),
      Node(OPF, "item", <<Attr("id", S("c")), Attr("href", HrefY), Attr("media-type", Xhtml),
                          CoverImage>>, None, <<>>),
      ItemNode("b", HrefZ)>>

\* x.xhtml is a content document; y.png is no XML: the reader fails on it
FrameArchives ==
    {(InBase(HrefX) :> Entry(None, TRUE,
                             ContentDoc(<<StartEv("head", <<>>), EndEv("head")>>, <<>>)))
     @@ (InBase(HrefY) :> Entry(None, FALSE, <<ErrorEv>>))
     @@ ArchiveOf(PackageDoc(PubId, PlainMeta, FrameManifest, <<>>, sp)) :
        sp \in {<<>>, <<ItemRef("a")>>, <<ItemRef("a"), ItemRef("b")>>,
                <<ItemRef("c"), ItemRef("a")>>}}

InitFrame == InitWith(FrameArchives)

GetCoverId == Query("get_cover_id", <<>>, get_cover_id(cover_id), "none")

GetCover ==
    \E readFails \in BOOLEAN :
        Query("get_cover", <<>>, get_cover(archive, resources, cover_id, readFails),
              IF readFails THEN "io" ELSE "none")

GetCurrent ==
    \E readFails \in BOOLEAN :
        Query("get_current", <<>>, get_current(archive, resources, spine, current, readFails),
              IF readFails THEN "io" ELSE "none")

GetCurrentStr ==
    \E readFails \in BOOLEAN :
        Query("get_current_str", <<>>,
              get_current_str(archive, resources, spine, current, readFails),
              IF readFails THEN "io" ELSE "none")

GetCurrentPath ==
    Query("get_current_path", <<>>, get_current_path(resources, spine, current), "none")

NextFrame ==
    \/ FromReader
    \/ GoNext
    \/ GoPrev
    \/ SetCurrentPage
    \/ AddExtraCss
    \/ GetCurrentId
    \/ GetCurrentPath
    \/ GetCurrent
    \/ GetCurrentStr
    \/ GetCurrentWithEpubUris
    \/ GetCoverId
    \/ GetCover
    \/ ResourceIdToChapter
    \/ ResourceUriToChapter
    \/ GetReleaseIdentifier
    \/ GetResourceByPath
    \/ GetResource
    \/ GetResourceStrByPath
    \/ GetResourceStr
    \/ Mdata

\* Any sequence of calls of the public methods on a document that was opened.
SpecFrame == InitFrame /\ [][NextFrame]_vars

-----------------------------------------------------------------------------
(* Opening packages that lack parts or hold malformed ones                 *)

\* the entry the manifest id ncx points to: an NCX document, bytes that are
\* no XML, fewer than 3 bytes, an NCX document without navMap, or (None) no
\* entry of the archive at all
TocEntries ==
    {Some(Entry(Some(Ncx(<<NavPointNode(S("1"), <<>>)>>)), TRUE, "ncx")),
     Some(Entry(None, TRUE, "ncx")),
     Some(Entry(TooShort, TRUE, "n")),
     Some(Entry(Some(Node(NoNs, "ncx", <<>>, None, <<>>)), TRUE, "ncx")),
     None}

TocAttrs == {<<>>, <<Attr("toc", S("ncx"))>>, <<Attr("toc", S("zz"))>>}

\* Children of <manifest>: an item without href before complete ones, the
\* toc item last; the toc item first and an id given twice; none; and
\* items that lack the id or the media-type.
OpenManifests ==
    {<<Node(OPF, "item", <<Attr("id", S("k")), Attr("media-type", Xhtml)>>, None, <<>>),
       ItemNode("a", HrefX), ItemNode("ncx", HrefNcx)>>,
     <<ItemNode("ncx", HrefNcx), ItemNode("a", HrefX), ItemNode("a", HrefY)>>,
     <<>>,
     <<Node(OPF, "item", <<Attr("href", HrefX), Attr("media-type", Xhtml)>>, None, <<>>),
       Node(OPF, "item", <<Attr("id", S("b")), Attr("href", HrefY)>>, None, <<>>)>>}

LinearRef(idref, linear) ==
    Node(OPF, "itemref", <<Attr("idref", S(idref)), Attr("linear", linear)>>, None, <<>>)

\* Children of <spine>: itemrefs with and without idref and with the linear
\* values no, yes, maybe and the empty string; none; a single plain one.
OpenSpines ==
    {<<ItemRef("a"), Node(OPF, "itemref", <<Attr("linear", S("no"))>>, None, <<>>),
       LinearRef("a", S("no")), LinearRef("b", S("yes")), LinearRef("c", S("maybe")),
       LinearRef("d", <<>>)>>,
     <<>>,
     <<ItemRef("a")>>}

\* The children of <package>: all three elements, with an empty <metadata>,
\* and with one of the three left out
PackageShapes(manifest, spineAttrs, sp) ==
    LET meta == Node(OPF, "metadata", <<>>, None, PlainMeta)
        nometa == Node(OPF, "metadata", <<>>, None, <<>>)
        mani == Node(OPF, "manifest", <<>>, None, manifest)
        spi == Node(OPF, "spine", spineAttrs, None, sp)
    IN {<<meta, mani, spi>>, <<nometa, mani, spi>>, <<mani, spi>>, <<meta, spi>>,
        <<meta, mani>>}

OpenArchive(tocEntry, package) ==
    (IF IsSome(tocEntry) THEN InBase(HrefNcx) :> Unwrap(tocEntry) ELSE EmptyMap)
    @@ ArchiveOf(package)

OpenArchives ==
    {OpenArchive(e, Node(OPF, "package", PubId, None, kids)) :
        e \in TocEntries,
        kids \in UNION {PackageShapes(m, ta, sp) :
                           m \in OpenManifests, ta \in TocAttrs, sp \in OpenSpines}}
    \cup {(RootFile :> Entry(TooShort, TRUE, "p")) @@ Content,
          (RootFile :> Entry(None, TRUE, "package")) @@ Content,
          (ContainerPath :> Entry(TooShort, TRUE, "c")) @@ Content}

InitOpen == InitWith(OpenArchives)

NextOpen == FromReader

\* Opening: from_reader is called on an archive.
SpecOpen == InitOpen /\ [][NextOpen]_vars

-----------------------------------------------------------------------------
(* navPoint elements of all kinds                                          *)

NavLabel(text) ==
    Node(NoNs, "navLabel", <<>>, None, <<Node(NoNs, "text", <<>>, text, <<>>)>>)
NavContent(attrs) == Node(NoNs, "content", attrs, None, <<>>)

\* a complete navPoint of playOrder 2 to nest in another
NavKid ==
    Node(NoNs, "navPoint", <<Attr("playOrder", S("2"))>>, None,
         <<NavLabel(Some(S("kid"))), NavContent(<<Attr("src", HrefY)>>)>>)

\* What a navPoint can lack: nothing; the playOrder attribute, or a number
\* in it; the content element, or its src; the navLabel, its child, or the
\* text of its child.
NavParts ==
    LET order == <<Attr("playOrder", S("1"))>>
        label == NavLabel(Some(S("label")))
        content == NavContent(<<Attr("src", HrefX)>>)
    IN {[attrs |-> order, kids |-> <<label, content>>],
        [attrs |-> <<>>, kids |-> <<label, content>>],
        [attrs |-> <<Attr("playOrder", S("x"))>>, kids |-> <<label, content>>],
        [attrs |-> <<Attr("playOrder", <<>>)>>, kids |-> <<label, content>>],
        [attrs |-> order, kids |-> <<label>>],
        [attrs |-> order, kids |-> <<label, NavContent(<<>>)>>],
        [attrs |-> order, kids |-> <<content>>],
        [attrs |-> order, kids |-> <<Node(NoNs, "navLabel", <<>>, None, <<>>), content>>],
        [attrs |-> order, kids |-> <<NavLabel(None), content>>]}

\* each of them without and with a nested navPoint, and an element of
\* another name that holds a navPoint
NavVariants ==
    {Node(NoNs, "navPoint", p.attrs, None, p.kids \o nested) :
        p \in NavParts, nested \in {<<>>, <<NavKid>>}}
    \cup {Node(NoNs, "navInfo", <<>>, None, <<NavKid>>)}

VariantArchives ==
    {(InBase(HrefNcx) :> Entry(Some(Ncx(tops)), TRUE, "ncx")) @@ ArchiveOf(TocPackage("ncx")) :
        tops \in {<<a>> : a \in NavVariants} \cup {<<a, b>> : a, b \in NavVariants}}

InitNav == InitWith(VariantArchives)

NextNav == FromReader

\* The toc of an NCX document: from_reader is called on the archive.
SpecNav == InitNav /\ [][NextNav]_vars

-----------------------------------------------------------------------------
(* The claims                                                              *)

Min(set) == CHOOSE i \in set : \A j \in set : i <= j

\* C1: on an open document with cursor c and a spine of length L, go_next
\* returns true and sets current to c+1 iff c+1 < L, go_prev returns true and
\* sets current to c-1 iff c > 0, set_current_page(n) returns true and sets
\* current to n iff n < L; every other call returns false and leaves current
\* as it was.
C1_NavigationContract ==
    [][/\ ret'.op = "go_next" =>
            IF current + 1 < Len(spine)
            THEN ret'.val = TRUE /\ current' = current + 1
            ELSE ret'.val = FALSE /\ current' = current
       /\ ret'.op = "go_prev" =>
            IF current > 0
            THEN ret'.val = TRUE /\ current' = current - 1
            ELSE ret'.val = FALSE /\ current' = current
       /\ ret'.op = "set_current_page" =>
            IF ret'.arg < Len(spine)
            THEN ret'.val = TRUE /\ current' = ret'.arg
            ELSE ret'.val = FALSE /\ current' = current]_vars

\* a seek to the index one past the end was refused on the last page
C1_Witness ==
    /\ ret.op = "set_current_page"
    /\ ret.arg = Len(spine)
    /\ ret.val = FALSE
    /\ Len(spine) >= 2
    /\ current = Len(spine) - 1

\* C2: from a freshly opened document with a non-empty spine of length L,
\* the k-th go_next of a walk returns true and leaves page k while k < L,
\* and returns false and leaves page L-1 from the L-th call on: the pages
\* 0, 1, ..., L-1 are met in that order, each once.
C2_WalkVisitsEveryPage ==
    (phase = "open" /\ Len(spine) > 0) =>
        /\ \A k \in 1..Len(walk) :
            /\ walk[k].val = (k < Len(spine))
            /\ walk[k].page = IF k < Len(spine) THEN k ELSE Len(spine) - 1
        /\ current = IF walk = <<>> THEN 0 ELSE walk[Len(walk)].page

\* a walk that went through a spine of two pages or more and was refused
C2_Witness ==
    /\ phase = "open"
    /\ Len(spine) >= 2
    /\ Len(walk) > Len(spine)
    /\ walk[Len(walk)].val = FALSE

\* C3: on an open document current is an index of the spine whenever the
\* spine is not empty and is 0 when it is empty, whatever calls were made;
\* get_current_id returns None only when the spine is empty.
C3_CurrentIsValid ==
    phase = "open" =>
        /\ Len(spine) > 0 => current < Len(spine)
        /\ Len(spine) = 0 => current = 0
        /\ (ret.op = "get_current_id" /\ IsNone(ret.val)) => Len(spine) = 0

\* get_current_id answered on the last page of a spine, css added before
C3_Witness ==
    /\ ret.op = "get_current_id"
    /\ IsSome(ret.val)
    /\ Len(spine) >= 2
    /\ current = Len(spine) - 1
    /\ extra_css # <<>>

\* C4, as claimed: for every index i of the spine,
\* resource_id_to_chapter(spine[i].idref) returns Some(i).
C4_Claimed ==
    ret.op = "resource_id_to_chapter" =>
        \A i \in 1..Len(spine) :
            spine[i].idref = ret.arg => ret.val = Some(i - 1)

\* C4, amended: resource_id_to_chapter(spine[i].idref) returns Some(j), j the
\* first index whose idref equals spine[i].idref; so j <= i, and j = i when
\* no earlier item of the spine carries the same idref.
C4_FirstIndexOfIdref ==
    ret.op = "resource_id_to_chapter" =>
        \A i \in 1..Len(spine) :
            spine[i].idref = ret.arg =>
                /\ IsSome(ret.val)
                /\ Unwrap(ret.val) + 1 <= i
                /\ spine[Unwrap(ret.val) + 1].idref = ret.arg
                /\ \A k \in 1..Unwrap(ret.val) : spine[k].idref # ret.arg
                /\ (\A k \in 1..(i - 1) : spine[k].idref # ret.arg) => ret.val = Some(i - 1)

\* the id asked for is the idref of the second and the third item, not the first
C4_Witness ==
    /\ ret.op = "resource_id_to_chapter"
    /\ Len(spine) = 3
    /\ spine[1].idref # ret.arg
    /\ spine[2].idref = ret.arg
    /\ spine[3].idref = ret.arg
    /\ ret.val = Some(1)

\* the manifest entries with this path, and the spine items that refer to one
IdsOfPath(path) == {k \in DOMAIN resources : resources[k].path = path}
ChaptersOfPath(path) == {i \in 1..Len(spine) : spine[i].idref \in IdsOfPath(path)}

\* C5: resource_uri_to_chapter(path) returns Some(i), i the index of the
\* first spine item that refers to a manifest entry with this path, whenever
\* there is one, and None only when there is none, whatever the order the
\* manifest is iterated in.
C5_Claimed ==
    ret.op = "resource_uri_to_chapter" =>
        IF ChaptersOfPath(ret.arg) = {} THEN IsNone(ret.val)
        ELSE ret.val = Some(Min(ChaptersOfPath(ret.arg)) - 1)

RECURSIVE SortedForest(_)
SortedForest(navs) ==
    /\ \A i \in 1..(Len(navs) - 1) : navs[i].play_order <= navs[i + 1].play_order
    /\ \A i \in 1..Len(navs) : SortedForest(navs[i].children)

\* C6: after open, at every level of the toc (the top level and the children
\* of every NavPoint at any depth) adjacent siblings a, b have
\* a.play_order <= b.play_order.
C6_TocSorted == phase = "open" => SortedForest(toc)

NavMapOf(arch) == Unwrap(find(Unwrap(arch[InBase(HrefNcx)].xml), "navMap"))

\* a toc whose first navPoint in the document, of playOrder 10, came out
\* second, and whose first entry has two children that were swapped
C6_Witness ==
    /\ phase = "open"
    /\ Len(toc) = 2
    /\ toc[1].play_order = 2
    /\ toc[2].play_order = 10
    /\ get_attr(NavMapOf(archive).children[1], "playOrder") = Some(<<"1", "0">>)
    /\ Len(toc[1].children) = 2
    /\ toc[1].children[1].play_order < toc[1].children[2].play_order
    /\ get_attr(NavMapOf(archive).children[2].children[3], "playOrder") = Some(<<"1", "0">>)

\* the unique-identifier attribute of the package document that was opened
DeclaredUid == get_attr(Unwrap(archive[root_file].xml), "unique-identifier")

Identifiers == {i \in 1..Len(metadata) : metadata[i].property = S("identifier")}

DeclaredIdentifiers ==
    {i \in Identifiers : IsSome(DeclaredUid) /\ metadata[i].id = DeclaredUid}

\* C7: after open, unique_identifier is the value of the identifier item
\* whose id is the package's unique-identifier attribute when there is such
\* an item; when the attribute is absent or matches no identifier item, it is
\* the value of the first identifier item; it is unset only when the
\* metadata has no identifier item.
C7_Claimed ==
    phase = "open" =>
        IF DeclaredIdentifiers # {}
        THEN unique_identifier = Some(metadata[Min(DeclaredIdentifiers)].value)
        ELSE IF Identifiers # {}
        THEN unique_identifier = Some(metadata[Min(Identifiers)].value)
        ELSE IsNone(unique_identifier)

Modified == {i \in 1..Len(metadata) : metadata[i].property = S("dcterms:modified")}

\* C8: get_release_identifier returns Some(u@m) exactly when
\* unique_identifier is Some(u) and the metadata has an item of property
\* dcterms:modified, m the value of the first; otherwise it returns None,
\* also when there is a unique identifier.
C8_ReleaseIdentifier ==
    ret.op = "get_release_identifier" =>
        IF IsSome(unique_identifier) /\ Modified # {}
        THEN ret.val = Some(Unwrap(unique_identifier) \o <<"@">>
                            \o metadata[Min(Modified)].value)
        ELSE IsNone(ret.val)

\* no release identifier for a document that has a unique identifier
C8_Witness ==
    /\ ret.op = "get_release_identifier"
    /\ IsNone(ret.val)
    /\ IsSome(unique_identifier)
    /\ Len(metadata) = 3

\* the archive has an entry of this name, as it is or percent-decoded
EntryExists(path) ==
    \/ path \in DOMAIN archive
    \/ DecodesToUtf8(path) /\ percent_decode(path) \in DOMAIN archive

\* C9: get_resource and get_resource_by_path return the absent result
\* exactly when the id is no key of the manifest or the path is no entry of
\* the archive; a failed read of an entry that exists is told apart from it.
C9_Claimed ==
    /\ ret.op = "get_resource_by_path" => (IsNone(ret.val) <=> ~EntryExists(ret.arg))
    /\ ret.op = "get_resource" =>
        (IsNone(ret.val) <=> (\/ ret.arg \notin DOMAIN resources
                              \/ ~EntryExists(resources[ret.arg].path)))
    /\ (ret.op \in {"get_resource", "get_resource_by_path"} /\ ret.cause = "io") =>
        IsSome(ret.val)

\* C10: get_resource_str and get_resource_str_by_path on an entry that
\* exists and whose bytes are not valid UTF-8 do not return the result they
\* return for a missing id or path.
C10_Claimed ==
    LET exists ==
            CASE ret.op = "get_resource_str_by_path" -> EntryExists(ret.arg)
              [] ret.op = "get_resource_str" ->
                    /\ ret.arg \in DOMAIN resources
                    /\ EntryExists(resources[ret.arg].path)
              [] OTHER -> FALSE
    IN (exists /\ ret.cause = "utf8") => IsSome(ret.val)

\* the segments of a relative path, and the path of a list of segments
Segments(p) == ComponentsFrom(p, 1, <<>>)

RECURSIVE Resolve(_, _, _)
Resolve(segs, comps, i) ==
    IF i > Len(comps) THEN segs
    ELSE IF comps[i] = <<"..">>
    THEN Resolve(IF segs = <<>> THEN segs ELSE SubSeq(segs, 1, Len(segs) - 1), comps, i + 1)
    ELSE Resolve(Append(segs, comps[i]), comps, i + 1)

DirOf(path) == LET segs == Segments(path) IN SubSeq(segs, 1, Len(segs) - 1)

\* C12: build_epub_uri(current_path, v) is v itself when v starts with
\* "http"; otherwise it is "epub://" followed by the "/"-joined segments got
\* from the directory of current_path by removing the last segment for each
\* ".." of v and appending each ordinary component of v, in order.  Every
\* result equals v or starts with "epub://".
C12_BuildEpubUri ==
    ret.op = "build_epub_uri" =>
        /\ IF ret.arg.value # <<>> /\ ret.arg.value[1] = "http"
           THEN ret.val = ret.arg.value
           ELSE ret.val = <<"epub://">>
                    \o JoinWith(Resolve(DirOf(ret.arg.path), Segments(ret.arg.value), 1),
                                <<Sep>>)
        /\ ret.val = ret.arg.value \/ (ret.val # <<>> /\ ret.val[1] = "epub://")

\* OEBPS/Text/x.xhtml with ../Images/portada.png gives epub://OEBPS/Images/portada.png
C12_Witness ==
    /\ ret.op = "build_epub_uri"
    /\ ret.arg.path = <<"OEBPS", Sep, "Text", Sep, "x.xhtml">>
    /\ ret.arg.value = <<"..", Sep, "Images", Sep, "portada", ".png">>
    /\ ret.val = <<"epub://", "OEBPS", Sep, "Images", Sep, "portada", ".png">>

\* the document get_current_with_epub_uris read, and its path
RelinkedPath == Unwrap(get_current_path(resources, spine, current))
RelinkedDoc == archive[RelinkedPath].bytes
Relinked == ret.op = "get_current_with_epub_uris" /\ ret.val.ok

WithAttrs(events) == SelectSeq(events, LAMBDA e : e.kind = "start" /\ e.attrs # <<>>)

RelinkedPairs ==
    {<<"link", "href">>, <<"image", "href">>, <<"a", "href">>, <<"img", "src">>}

\* C11: in the output of get_current_with_epub_uris the elements and their
\* attributes are those of the content document, in order; the value of an
\* attribute is the constructed URI when (element local name, attribute
\* local name) is (link, href), (image, href), (a, href) or (img, src), and
\* the value it had in every other case.
C11_OnlyFourPairsRelinked ==
    Relinked =>
        LET ins == WithAttrs(RelinkedDoc)
            outs == WithAttrs(ret.val.val)
        IN /\ Len(outs) = Len(ins)
           /\ \A i \in 1..Len(ins) :
                /\ outs[i].name = ins[i].name
                /\ Len(outs[i].attrs) = Len(ins[i].attrs)
                /\ \A j \in 1..Len(ins[i].attrs) :
                    /\ outs[i].attrs[j].name = ins[i].attrs[j].name
                    /\ outs[i].attrs[j].ns = ins[i].attrs[j].ns
                    /\ outs[i].attrs[j].value =
                        IF <<ins[i].name, ins[i].attrs[j].name>> \in RelinkedPairs
                        THEN build_epub_uri(RelinkedPath, ins[i].attrs[j].value)
                        ELSE ins[i].attrs[j].value

\* an <img> whose src was relinked and whose alt, a relative path too, was
\* not, followed by an <A href> left as it was
C11_Witness ==
    /\ Relinked
    /\ Len(WithAttrs(ret.val.val)) = 2
    /\ WithAttrs(ret.val.val)[1].name = "img"
    /\ WithAttrs(ret.val.val)[1].attrs[1].value =
            <<"epub://", "Images", Sep, "portada", ".png">>
    /\ WithAttrs(ret.val.val)[1].attrs[2].value = <<"..", Sep, "x">>
    /\ WithAttrs(ret.val.val)[2].name = "A"
    /\ WithAttrs(ret.val.val)[2].attrs[1].value = S("c.xhtml")

\* t is a substring of text
Contains(text, t) == \E i \in 0..(Len(text) - Len(t)) : SubSeq(text, i + 1, i + Len(t)) = t

\* how often x occurs in a sequence
Count(seq, x) == Cardinality({i \in 1..Len(seq) : seq[i] = x})

HeadEnds(events) ==
    Cardinality({i \in 1..Len(events) :
                    events[i].kind = "end" /\ events[i].name \in {"head", "HEAD", "Head"}})

C14_ExactThenDecoded ==
    (ret.op = "get_entry" /\ ret.val.err # "io") =>
        /\ IF ret.arg \in DOMAIN archive
           THEN ret.val.ok /\ ret.val.val = archive[ret.arg]
           ELSE IF percent_decode(ret.arg) \in DOMAIN archive
           THEN ret.val.ok /\ ret.val.val = archive[percent_decode(ret.arg)]
           ELSE ~ret.val.ok
        /\ ret.val.err = "notfound" =>
            /\ ret.arg \notin DOMAIN archive
            /\ percent_decode(ret.arg) \notin DOMAIN archive

\* "e%20f" asked for where both "e%20f" and "e f" are stored: the exact one is returned
C14_Witness ==
    /\ ret.op = "get_entry"
    /\ ret.arg = <<"e", "%20", "f">>
    /\ <<"e", "%20", "f">> \in DOMAIN archive
    /\ <<"e", " ", "f">> \in DOMAIN archive
    /\ ret.val.ok
    /\ ret.val.val.bytes = <<"e", "%20", "f">>

\* C15: XMLReader::parse of a buffer shorter than 4 bytes returns the
\* content-too-short error; it does not panic.
C15_Claimed ==
    (ret.op = "parse" /\ ret.arg.len < 4) =>
        /\ ret.val # Panic
        /\ ret.val = Err("content too short")

\* C16: XMLReader::parse returns an error whenever the reader yields an
\* error event, wherever in the document, also after the root element was
\* closed; it never returns Ok with the tree built before the error.
C16_Claimed ==
    (/\ ret.op = "parse"
     /\ ret.val # Panic
     /\ \E i \in 1..Len(ret.arg.events) : ret.arg.events[i].kind = "error") =>
        ~ret.val.ok

\* The package document of the archive, and the children of its <manifest>
\* and <metadata> in document order
PackageOf == Unwrap(archive[RootFile].xml)
MetaKids == PackageOf.children[1].children
ManifestKids == PackageOf.children[2].children

Max(set) == CHOOSE i \in set : \A j \in set : j <= i

\* C17: for every entry of the manifest mapping exposed after open, the id
\* key, the resolved path and the media-type are non-empty, and the resolved
\* path has no backslash separator (a backslash separates on Windows only).
C17_Claimed ==
    phase = "open" =>
        \A id \in DOMAIN resources :
            /\ id # <<>>
            /\ resources[id].path # <<>>
            /\ resources[id].mime # <<>>
            /\ TargetWindows =>
                   \A i \in 1..Len(resources[id].path) : resources[id].path[i] # "\\"

HasAttr(node, name) == \E i \in 1..Len(node.attrs) : node.attrs[i].name = name
AttrOf(node, name) ==
    node.attrs[Min({i \in 1..Len(node.attrs) : node.attrs[i].name = name})].value

IsMeta(k) == k.ns = OPF /\ k.name \in {"meta", "META", "Meta"}
IsLegacy(k) ==
    IsMeta(k) /\ ~HasAttr(k, "property") /\ HasAttr(k, "name") /\ HasAttr(k, "content")
IsPrimary(k) == IsMeta(k) /\ HasAttr(k, "property") /\ ~HasAttr(k, "refines")
IsRefining(k) == IsMeta(k) /\ HasAttr(k, "property") /\ HasAttr(k, "refines")

\* the legacy cover elements of the metadata, and the manifest children
\* whose properties attribute is "cover-image"
LegacyCovers ==
    {i \in 1..Len(MetaKids) :
        IsLegacy(MetaKids[i]) /\ AttrOf(MetaKids[i], "name") = S("cover")}
CoverItems ==
    {j \in 1..Len(ManifestKids) :
        /\ HasAttr(ManifestKids[j], "properties")
        /\ AttrOf(ManifestKids[j], "properties") = S("cover-image")}
IdOf(node) == IF HasAttr(node, "id") THEN Some(AttrOf(node, "id")) ELSE None

\* C18 as claimed: after open, cover_id is the content of a legacy cover
\* meta when the metadata has one; otherwise the id of the first manifest
\* item whose properties attribute is "cover-image"; otherwise unset.
C18_Claimed ==
    phase = "open" =>
        IF LegacyCovers # {}
        THEN \E i \in LegacyCovers : cover_id = Some(AttrOf(MetaKids[i], "content"))
        ELSE IF CoverItems # {}
        THEN cover_id = IdOf(ManifestKids[Min(CoverItems)])
        ELSE cover_id = None

\* C18: after open, cover_id is the content of the last legacy cover meta
\* when the metadata has one; otherwise the id of the first manifest item
\* that has an id and whose properties attribute is "cover-image";
\* otherwise unset.
C18_CoverId ==
    phase = "open" =>
        LET withId == {j \in CoverItems : HasAttr(ManifestKids[j], "id")}
        IN IF LegacyCovers # {}
           THEN cover_id = Some(AttrOf(MetaKids[Max(LegacyCovers)], "content"))
           ELSE IF withId # {}
           THEN cover_id = Some(AttrOf(ManifestKids[Min(withId)], "id"))
           ELSE cover_id = None

\* a document is open whose first cover-image item has no id and whose
\* cover comes from a later one
C18_Witness ==
    /\ phase = "open"
    /\ LegacyCovers = {}
    /\ CoverItems # {}
    /\ ~HasAttr(ManifestKids[Min(CoverItems)], "id")
    /\ cover_id = Some(S("d"))

\* the children of <metadata> that are metadata items: Dublin Core elements,
\* primary metas and legacy metas
IsItem(k) == k.ns = DC \/ IsPrimary(k) \/ IsLegacy(k)
ItemKids == SelectSeq(MetaKids, IsItem)
PropertyOf(k) ==
    IF k.ns = DC THEN S(k.name)
    ELSE IF IsPrimary(k) THEN AttrOf(k, "property")
    ELSE AttrOf(k, "name")
ValueOf(k) ==
    IF IsLegacy(k) THEN AttrOf(k, "content")
    ELSE IF k.text = None THEN <<>> ELSE Unwrap(k.text)

\* C19: after open, metadata holds one item for each Dublin Core element,
\* primary meta and legacy meta among the children of <metadata>, in
\* document order, items of one property all kept, and mdata(p) returns the
\* first item in that order whose property is p.
C19_MetadataInOrder ==
    phase = "open" =>
        /\ Len(metadata) = Len(ItemKids)
        /\ \A j \in 1..Len(ItemKids) :
               /\ metadata[j].property = PropertyOf(ItemKids[j])
               /\ metadata[j].value = ValueOf(ItemKids[j])
        /\ ret.op = "mdata" =>
               LET hits == {j \in 1..Len(metadata) : metadata[j].property = ret.arg}
               IN ret.val = IF hits = {} THEN None ELSE Some(metadata[Min(hits)])

\* mdata("title") on a document whose legacy title stands before the Dublin
\* Core title and a primary meta
C19_Witness ==
    /\ phase = "open"
    /\ ret.op = "mdata"
    /\ ret.arg = S("title")
    /\ Len(metadata) = 3
    /\ metadata[1].value = S("L")
    /\ metadata[2].value = S("T")
    /\ metadata[3].property = S("p")
    /\ ret.val = Some(metadata[1])

\* the pending refinements of the target t, in document order
RefinesTo(k, t) == IsRefining(k) /\ AttrOf(k, "refines") = <<"#">> \o t
RefinementOf(k) ==
    [property |-> AttrOf(k, "property"),
     value |-> ValueOf(k),
     lang |-> IF HasAttr(k, "lang") THEN Some(AttrOf(k, "lang")) ELSE None,
     scheme |-> IF HasAttr(k, "scheme") THEN Some(AttrOf(k, "scheme")) ELSE None]
Pending(t) ==
    LET to == SelectSeq(MetaKids, LAMBDA k : RefinesTo(k, t))
    IN [n \in 1..Len(to) |-> RefinementOf(to[n])]
Targets ==
    {Tail(AttrOf(MetaKids[i], "refines")) :
        i \in {n \in 1..Len(MetaKids) :
                  /\ IsRefining(MetaKids[n])
                  /\ AttrOf(MetaKids[n], "refines") # <<>>
                  /\ Head(AttrOf(MetaKids[n], "refines")) = "#"}}
\* what the refined list of item i holds of the pending refinements of t
RefinedAt(i, t) ==
    SelectSeq(metadata[i].refined,
              LAMBDA r : \E n \in 1..Len(Pending(t)) : Pending(t)[n] = r)
Holders(t) == {i \in 1..Len(metadata) : metadata[i].id = Some(t)}

\* C20: after the metadata pass, the pending refinements of a target that is
\* the id of some item are in the refined list of one item with that id, in
\* document order, and in no other refined list; the refinements of a
\* target that is no item's id are in no refined list, and open succeeds.
C20_RefinementsAttached ==
    /\ (ret.op = "from_reader" /\ ret.cause = "none") => phase = "open"
    /\ phase = "open" =>
           \A t \in Targets :
               IF Holders(t) # {}
               THEN \E i \in Holders(t) :
                        /\ RefinedAt(i, t) = Pending(t)
                        /\ \A j \in 1..Len(metadata) : j # i => RefinedAt(j, t) = <<>>
               ELSE \A j \in 1..Len(metadata) : RefinedAt(j, t) = <<>>

\* two items have the id t and a refinement of #t is pending
C20_Witness ==
    /\ phase = "open"
    /\ Len(metadata) = 2
    /\ Holders(S("t")) = {1, 2}
    /\ Len(Pending(S("t"))) = 1
    /\ metadata[1].refined = Pending(S("t"))


Navigations == {"go_next", "go_prev", "set_current_page"}
Queries ==
    {"get_current_with_epub_uris", "get_current", "get_current_str", "get_current_path",
     "get_current_id", "get_resource", "get_resource_by_path", "get_resource_str",
     "get_resource_str_by_path", "get_cover", "get_cover_id", "mdata",
     "get_release_identifier", "resource_id_to_chapter", "resource_uri_to_chapter"}

\* C21: after construction, go_next, go_prev and set_current_page change no
\* field but current; add_extra_css changes no field but extra_css, to which
\* it appends its argument; every query leaves current, extra_css, spine,
\* the manifest, toc and metadata as they are, whether it succeeds or fails.
C21_Frame ==
    [][/\ ret'.op \in Navigations =>
              UNCHANGED <<archive, phase, docFields, extra_css>>
       /\ ret'.op = "add_extra_css" =>
              /\ extra_css' = Append(extra_css, ret'.arg)
              /\ UNCHANGED <<archive, phase, docFields, current>>
       /\ ret'.op \in Queries =>
              UNCHANGED <<current, extra_css, spine, resources, toc, metadata>>]_vars

\* relinking has just failed on a document that was walked forward and given
\* extra css
C21_Witness ==
    /\ ret.op = "get_current_with_epub_uris"
    /\ ~ret.val.ok
    /\ current = 1
    /\ extra_css # <<>>


\* the first child of the name, as an Option
ChildNamed(node, name) ==
    LET hits == {i \in 1..Len(node.children) : node.children[i].name = name}
    IN IF hits = {} THEN None ELSE Some(node.children[Min(hits)])

\* the archive holds a package document that parses
PackageParsed == RootFile \in DOMAIN archive /\ Len(archive[RootFile].xml) = 1

\* the children of <manifest> that have id, href and media-type
IsComplete(item) ==
    HasAttr(item, "id") /\ HasAttr(item, "href") /\ HasAttr(item, "media-type")
CompleteItems(mani) == SelectSeq(mani.children, IsComplete)
LastWithId(items, id) ==
    items[Max({i \in 1..Len(items) : AttrOf(items[i], "id") = id})]

\* the archive as it would be had the spine no attribute
WithoutTocAttr ==
    LET strip(k) == IF k.name = "spine" THEN [k EXCEPT !.attrs = <<>>] ELSE k
        pkg == [PackageOf EXCEPT !.children = [i \in DOMAIN @ |-> strip(@[i])]]
    IN [archive EXCEPT ![RootFile].xml = Some(pkg)]

\* the toc attribute of the spine names no manifest id, or a resource that
\* cannot be read, cannot be parsed or has no navMap
TocBroken ==
    LET tocId == AttrOf(Unwrap(ChildNamed(PackageOf, "spine")), "toc")
        items == CompleteItems(Unwrap(ChildNamed(PackageOf, "manifest")))
        ids == {AttrOf(items[i], "id") : i \in 1..Len(items)}
        path == <<"OEBPS", Sep>> \o AttrOf(LastWithId(items, tocId), "href")
    IN \/ tocId \notin ids
       \/ path \notin DOMAIN archive
       \/ ret.cause = "toc"
       \/ Len(archive[path].xml) # 1
       \/ IsNone(ChildNamed(Unwrap(archive[path].xml), "navMap"))

\* C22: if the toc attribute of <spine> names an id absent from the
\* manifest, or the resource cannot be read, cannot be parsed or has no
\* navMap, open succeeds with an empty toc, and manifest, spine and metadata
\* are filled as they would be without the toc attribute.
C22_Claimed ==
    (/\ ret.op = "from_reader"
     /\ ret.cause \in {"none", "toc"}
     /\ PackageParsed
     /\ IsSome(ChildNamed(PackageOf, "manifest"))
     /\ IsSome(ChildNamed(PackageOf, "spine"))
     /\ HasAttr(Unwrap(ChildNamed(PackageOf, "spine")), "toc")
     /\ from_reader(WithoutTocAttr, "none").outcome = "open"
     /\ TocBroken) =>
        /\ phase = "open"
        /\ toc = <<>>
        /\ resources = from_reader(WithoutTocAttr, "none").doc.resources
        /\ spine = from_reader(WithoutTocAttr, "none").doc.spine
        /\ metadata = from_reader(WithoutTocAttr, "none").doc.metadata


\* C23: once container.xml has yielded the full-path and the package
\* document has been read and parsed, open fails only if the package has no
\* <manifest> or no <spine>; without metadata, toc, cover or unique
\* identifier, or with malformed entries, open returns Ok.
C23_Claimed ==
    (/\ ret.op = "from_reader"
     /\ ret.cause \in {"none", "toc"}
     /\ Len(archive[ContainerPath].xml) = 1
     /\ PackageParsed) =>
        (phase # "open" <=>
            \/ IsNone(ChildNamed(PackageOf, "manifest"))
            \/ IsNone(ChildNamed(PackageOf, "spine")))


\* C24: a child of <manifest> that lacks id, href or media-type adds no
\* entry to the manifest and does not make open fail; every child that has
\* all three adds the entry id -> (root_base joined with href, media-type);
\* the manifest is complete when the toc is resolved through it.
C24_ManifestPass ==
    LET mani == Unwrap(ChildNamed(PackageOf, "manifest"))
        items == CompleteItems(mani)
        tocId == AttrOf(Unwrap(ChildNamed(PackageOf, "spine")), "toc")
        tocPath == <<"OEBPS", Sep>> \o AttrOf(LastWithId(items, tocId), "href")
    IN /\ phase = "open" =>
              /\ DOMAIN resources = {AttrOf(items[i], "id") : i \in 1..Len(items)}
              /\ \A id \in DOMAIN resources :
                     /\ resources[id].path =
                            <<"OEBPS", Sep>> \o AttrOf(LastWithId(items, id), "href")
                     /\ resources[id].mime = AttrOf(LastWithId(items, id), "media-type")
              /\ (/\ ret.cause = "none"
                  /\ HasAttr(Unwrap(ChildNamed(PackageOf, "spine")), "toc")
                  /\ ~TocBroken
                  /\ ChildNamed(Unwrap(archive[tocPath].xml), "navMap")
                         # Some(Node(NoNs, "navMap", <<>>, None, <<>>))) =>
                     toc # <<>>
       /\ (/\ ret.op = "from_reader"
           /\ ret.cause = "none"
           /\ PackageParsed
           /\ IsSome(ChildNamed(PackageOf, "manifest"))
           /\ IsSome(ChildNamed(PackageOf, "spine"))
           /\ IsSome(ChildNamed(PackageOf, "metadata"))
           /\ ~HasAttr(Unwrap(ChildNamed(PackageOf, "spine")), "toc")) =>
              phase = "open"

\* a document is open whose manifest began with an item without href and
\* ended with the toc item, and its toc was found
C24_Witness ==
    /\ phase = "open"
    /\ DOMAIN resources = {S("a"), S("ncx")}
    /\ toc # <<>>
    /\ ~IsComplete(Unwrap(ChildNamed(PackageOf, "manifest")).children[1])


\* the children of <spine> that carry an idref
HasIdref(item) == HasAttr(item, "idref")
Itemrefs == SelectSeq(Unwrap(ChildNamed(PackageOf, "spine")).children, HasIdref)

\* C25 as claimed: after open, the spine is the sequence of the children of
\* <spine> that carry an idref, in document order, and linear is false only
\* when the linear attribute is "no"; any other value leaves it true.
C25_Claimed ==
    phase = "open" =>
        /\ Len(spine) = Len(Itemrefs)
        /\ \A j \in 1..Len(Itemrefs) :
               /\ spine[j].idref = AttrOf(Itemrefs[j], "idref")
               /\ spine[j].linear =
                      ~(HasAttr(Itemrefs[j], "linear")
                        /\ AttrOf(Itemrefs[j], "linear") = S("no"))

\* C25: after open, the spine is the sequence of the children of <spine>
\* that carry an idref, in document order, and linear is true when the
\* linear attribute is absent or "yes" and false for every other value.
C25_SpineInOrder ==
    /\ phase = "open" =>
           /\ Len(spine) = Len(Itemrefs)
           /\ \A j \in 1..Len(Itemrefs) :
                  /\ spine[j].idref = AttrOf(Itemrefs[j], "idref")
                  /\ spine[j].linear =
                         (HasAttr(Itemrefs[j], "linear") =>
                             AttrOf(Itemrefs[j], "linear") = S("yes"))
    /\ (/\ ret.op = "from_reader"
        /\ ret.cause = "none"
        /\ PackageParsed
        /\ IsSome(ChildNamed(PackageOf, "manifest"))
        /\ IsSome(ChildNamed(PackageOf, "spine"))
        /\ IsSome(ChildNamed(PackageOf, "metadata"))
        /\ Len(Itemrefs) < Len(Unwrap(ChildNamed(PackageOf, "spine")).children)
        /\ ~HasAttr(Unwrap(ChildNamed(PackageOf, "spine")), "toc")) =>
           phase = "open"

\* a spine was read that skipped a child without idref and holds items
\* whose linear attribute is no, yes, maybe and empty
C25_Witness ==
    /\ phase = "open"
    /\ Len(spine) = 5
    /\ Len(Unwrap(ChildNamed(PackageOf, "spine")).children) = 6
    /\ <<spine[1].linear, spine[2].linear, spine[3].linear, spine[4].linear,
         spine[5].linear>> = <<TRUE, FALSE, TRUE, FALSE, FALSE>>


\* the descendants of a node in document order
RECURSIVE Preorder(_)
Preorder(node) ==
    LET RECURSIVE from(_)
        from(i) ==
            IF i > Len(node.children) THEN <<>>
            ELSE <<node.children[i]>> \o Preorder(node.children[i]) \o from(i + 1)
    IN from(1)

\* the first element of the name below the node, as an Option
FirstBelow(node, name) ==
    LET named == SelectSeq(Preorder(node), LAMBDA n : n.name = name)
    IN IF named = <<>> THEN None ELSE Some(named[1])

IsNumber(s) == s # <<>> /\ \A i \in 1..Len(s) : s[i] \in {"0", "1", "2", "3", "4", "5", "6", "7", "8", "9"}

\* the navPoint has a playOrder that is a number, a content with a src, and
\* a navLabel whose first child has text
Accepted(item) ==
    /\ HasAttr(item, "playOrder") /\ IsNumber(AttrOf(item, "playOrder"))
    /\ IsSome(FirstBelow(item, "content"))
    /\ HasAttr(Unwrap(FirstBelow(item, "content")), "src")
    /\ IsSome(FirstBelow(item, "navLabel"))
    /\ Unwrap(FirstBelow(item, "navLabel")).children # <<>>
    /\ Unwrap(FirstBelow(item, "navLabel")).children[1].text # None

IsNavPoint(n) == n.name = "navPoint"
IsKept(n) == IsNavPoint(n) /\ Accepted(n)

\* every navPoint element at any depth under a node, through navPoints
\* only, in document order
RECURSIVE NavPointsUnder(_)
NavPointsUnder(node) ==
    LET RECURSIVE from(_)
        from(i) ==
            IF i > Len(node.children) THEN <<>>
            ELSE (IF IsNavPoint(node.children[i])
                  THEN <<node.children[i]>> \o NavPointsUnder(node.children[i])
                  ELSE <<>>) \o from(i + 1)
    IN from(1)

\* the same, without what is under a navPoint that is not kept
RECURSIVE NavPointsUnderKept(_)
NavPointsUnderKept(node) ==
    LET RECURSIVE from(_)
        from(i) ==
            IF i > Len(node.children) THEN <<>>
            ELSE (IF IsKept(node.children[i])
                  THEN <<node.children[i]>> \o NavPointsUnderKept(node.children[i])
                  ELSE IF IsNavPoint(node.children[i]) THEN <<node.children[i]>>
                  ELSE <<>>) \o from(i + 1)
    IN from(1)

\* the NavPoints of a level are those of the kept navPoint children of the
\* node, each with the label, the content and the NavPoints of its element
RECURSIVE SameNavs(_, _)
SameNavs(navs, node) ==
    LET kept == SelectSeq(node.children, IsKept)
        same(e, k) ==
            /\ e.label = Unwrap(Unwrap(FirstBelow(k, "navLabel")).children[1].text)
            /\ e.content =
                   <<"OEBPS", Sep>> \o AttrOf(Unwrap(FirstBelow(k, "content")), "src")
            /\ SameNavs(e.children, k)
    IN /\ Len(navs) = Len(kept)
       /\ \A i \in 1..Len(navs) : \E j \in 1..Len(kept) : same(navs[i], kept[j])
       /\ \A j \in 1..Len(kept) : \E i \in 1..Len(navs) : same(navs[i], kept[j])

HashRefining(k) ==
    /\ IsRefining(k)
    /\ AttrOf(k, "refines") # <<>>
    /\ Head(AttrOf(k, "refines")) = "#"
OddRefining(k) == IsRefining(k) /\ ~HashRefining(k)
NumberOf(Test(_)) == Len(SelectSeq(MetaKids, Test))
Attached(k) ==
    \E i \in 1..Len(metadata) :
        \E n \in 1..Len(metadata[i].refined) : metadata[i].refined[n] = RefinementOf(k)

\* C27 as claimed: every OPF meta with a property attribute is either a
\* pending refinement, when it has refines="#id", or else a primary item of
\* metadata; none is dropped, whatever the form of its refines value.
C27_Claimed ==
    phase = "open" =>
        Len(metadata) =
            NumberOf(LAMBDA k : k.ns = DC) + NumberOf(IsLegacy)
            + NumberOf(LAMBDA k : IsMeta(k) /\ HasAttr(k, "property") /\ ~HashRefining(k))

\* C27: an OPF meta with a property attribute is a pending refinement when
\* its refines value begins with "#", a primary item of metadata when it has
\* no refines attribute, and dropped when it has a refines value of another
\* form: it is no item and in no refined list.
C27_MetaClassified ==
    phase = "open" =>
        /\ Len(metadata) =
               NumberOf(LAMBDA k : k.ns = DC) + NumberOf(IsLegacy) + NumberOf(IsPrimary)
        /\ \A i \in 1..Len(MetaKids) :
               /\ (HashRefining(MetaKids[i])
                   /\ Holders(Tail(AttrOf(MetaKids[i], "refines"))) # {}) =>
                      Attached(MetaKids[i])
               /\ OddRefining(MetaKids[i]) => ~Attached(MetaKids[i])

\* a meta refining "t" without the hash stands after the element of id t
C27_Witness ==
    /\ phase = "open"
    /\ Len(MetaKids) = 2
    /\ OddRefining(MetaKids[2])
    /\ Len(metadata) = 1
    /\ metadata[1].id = Some(S("t"))
    /\ metadata[1].refined = <<>>


\* The events the loop of parse_xml was fed: those before the first error
Fed(events) ==
    LET errs == {i \in 1..Len(events) : events[i].kind = "error"}
    IN IF errs = {} THEN events ELSE SubSeq(events, 1, Min(errs) - 1)
Built == ret.op = "parse_xml"
Evs == Fed(ret.arg)
Starts == {k \in 1..Len(Evs) : Evs[k].kind = "start"}

\* how many elements are open after the first k events
RECURSIVE DepthAfter(_, _)
DepthAfter(ev, k) ==
    IF k = 0 THEN 0
    ELSE IF ev[k].kind = "start" THEN DepthAfter(ev, k - 1) + 1
    ELSE IF ev[k].kind = "end" /\ DepthAfter(ev, k - 1) > 0 THEN DepthAfter(ev, k - 1) - 1
    ELSE DepthAfter(ev, k - 1)

\* the handle of the node event k creates, k a start tag: nodes are numbered
\* as they are created
Created(ev, k) == Cardinality({i \in 1..k : ev[i].kind = "start"})

\* the handle of the innermost element open when event k arrives, 0 if none:
\* the last start tag before k that no event since has closed
TopBefore(ev, k) ==
    LET open == {i \in 1..(k - 1) :
                    /\ ev[i].kind = "start"
                    /\ \A e \in (i + 1)..(k - 1) : DepthAfter(ev, e) >= DepthAfter(ev, i)}
    IN IF open = {} THEN 0 ELSE Created(ev, Max(open))

Ascending(set) ==
    CHOOSE q \in [1..Cardinality(set) -> set] :
        \A i, j \in 1..Cardinality(set) : i < j => q[i] < q[j]

\* what C28 says of every sequence of events, but for the parent of a node:
\* a node per start tag, the first one the root, children lists in document
\* order with every node in the list of its parent only, parents older than
\* their children, and a stack that an end tag pops unless it is empty
TreeShape ==
    LET heap == ret.val.heap
    IN /\ Len(heap) = Cardinality(Starts)
       /\ ret.val.root = IF Starts = {} THEN None ELSE Some(1)
       /\ \A k \in Starts :
              /\ heap[Created(Evs, k)].name = Evs[k].name
              /\ heap[Created(Evs, k)].attrs = Evs[k].attrs
       /\ \A p \in 1..Len(heap) :
              heap[p].childs = Ascending({j \in 1..Len(heap) : heap[j].parent = Some(p)})
       /\ \A j \in 1..Len(heap) :
              IsSome(heap[j].parent) => Unwrap(heap[j].parent) < j
       /\ Len(ret.val.parents) = DepthAfter(Evs, Len(Evs))
       /\ ret.val.parents # <<>> =>
              ret.val.parents[Len(ret.val.parents)] = TopBefore(Evs, Len(Evs) + 1)

\* C28 as claimed: for any sequence of events the first start tag creates the
\* root, every later node is the last child of the node on top of the stack
\* when its start tag arrives and has that node as its parent, so that
\* every node but the root has exactly one parent; an end tag pops the stack
\* and does nothing when the stack is empty.
C28_Claimed ==
    Built =>
        /\ TreeShape
        /\ \A k \in Starts :
               Created(Evs, k) > 1 =>
                   /\ TopBefore(Evs, k) > 0
                   /\ ret.val.heap[Created(Evs, k)].parent = Some(TopBefore(Evs, k))

\* C28: the same, for the nodes whose start tag arrives while an element is
\* open; a node whose start tag arrives on an empty stack has no parent and
\* is in no children list, and when it is not the first node it is no part
\* of the tree parse_xml returns, which is the tree below the first node.
C28_TreeBuilt ==
    Built =>
        /\ TreeShape
        /\ \A k \in Starts :
               ret.val.heap[Created(Evs, k)].parent =
                   IF TopBefore(Evs, k) = 0 THEN None ELSE Some(TopBefore(Evs, k))
        /\ parse_xml(ret.arg) =
               IF IsNone(ret.val.root) THEN Err("Not xml elements")
               ELSE IF ret.val.parents # <<>> /\ ret.val.parents[1] = 1
                    THEN Err("Unknown error")
               ELSE Ok(tree_of(ret.val.heap, 1))

\* a second element arrives after the root is closed, and gets a child
C28_Witness ==
    /\ Built
    /\ Len(ret.val.heap) = 3
    /\ ret.val.heap[2].parent = None
    /\ ret.val.heap[2].childs = <<3>>
    /\ ret.val.heap[3].parent = Some(2)
    /\ ret.val.parents = <<2, 3>>

\* the text of the last event of a kind that arrived while node j was on top
LastOn(j, kind) ==
    LET at == {k \in 1..Len(Evs) : Evs[k].kind = kind /\ TopBefore(Evs, k) = j}
    IN IF at = {} THEN None ELSE Some(Evs[Max(at)].text)

\* C29: after the loop the text of a node is that of the last Characters
\* event received while the node was on top of the stack, None without one;
\* its cdata is that of the last CData event received there, and leaves text
\* alone; events received on an empty stack reach no node.
C29_LastTextWins ==
    Built =>
        \A j \in 1..Len(ret.val.heap) :
            /\ ret.val.heap[j].text = LastOn(j, "chars")
            /\ ret.val.heap[j].cdata = LastOn(j, "cdata")

\* two texts and then a CDATA arrive while the root is on top of the stack
C29_Witness ==
    /\ Built
    /\ Len(ret.arg) = 4
    /\ ret.arg[1].kind = "start"
    /\ ret.arg[2] = CharsEv(S("t"))
    /\ ret.arg[3] = CharsEv(S("u"))
    /\ ret.arg[4] = CDataEv(S("t"))
    /\ ret.val.heap[1].text = Some(S("u"))
    /\ ret.val.heap[1].cdata = Some(S("t"))


\* an end tag of an element named head, in any letter case
IsHeadEnd(e) == e.kind = "end" /\ e.name \in {"head", "HEAD", "Head"}

\* where event i of the document stands in the output when a block of five
\* events goes before every end tag of head among the first i
PlaceOf(doc, i, css) ==
    IF css = <<>> THEN i
    ELSE i + 5 * Cardinality({h \in 1..i : IsHeadEnd(doc[h])})

\* C30: in the output of replace_attrs every event of the document is there
\* in its place and order, an element with its name, any other event as it
\* was; when extra_css is non-empty every end tag of an element named head,
\* in any letter case, has right before it one style element holding the
\* entries of extra_css one after the other in order, and is itself still
\* there; the output holds nothing else, so with an empty extra_css or
\* without such an end tag it is the events of the document alone.
C30_StyleBeforeHeadEnd ==
    Relinked =>
        LET out == ret.val.val
            doc == RelinkedDoc
        IN /\ Len(out) = PlaceOf(doc, Len(doc), extra_css)
           /\ \A i \in 1..Len(doc) :
                LET o == PlaceOf(doc, i, extra_css)
                IN /\ out[o].kind = doc[i].kind
                   /\ out[o].name = doc[i].name
                   /\ doc[i].kind # "start" => out[o] = doc[i]
                   /\ (IsHeadEnd(doc[i]) /\ extra_css # <<>>) =>
                        /\ out[o - 5] = StartEv("style", <<>>)
                        /\ out[o - 4].kind = "chars"
                        /\ out[o - 3].kind = "cdata"
                        /\ Contains(out[o - 3].text, concat(extra_css))
                        /\ out[o - 2].kind = "chars"
                        /\ out[o - 1] = EndEv("style")

\* two different texts injected in call order before </head>, in a document
\* with a title in its head and an element in its body
C30_Witness ==
    /\ Relinked
    /\ Len(extra_css) = 2
    /\ extra_css[1] # extra_css[2]
    /\ Len(RelinkedDoc) > 10
    /\ RelinkedDoc[7] = EndEv("head")
    /\ Len(ret.val.val) = Len(RelinkedDoc) + 5
    /\ ret.val.val[7] = StartEv("style", <<>>)
    /\ ret.val.val[9].text = <<"*/">> \o extra_css[1] \o extra_css[2] \o <<"/*">>
    /\ ret.val.val[12] = EndEv("head")


====
